---- MODULE Spec2Model ----
(***************************************************************************)
(* TrancheReady: the risk-scoring and evidence-manifest pipeline.          *)
(*                                                                         *)
(* Conventions of the model                                                *)
(*   - A JavaScript value is a record whose single field names its type:   *)
(*       [str |-> "abc"]            a string                               *)
(*       [iso |-> n]                the string "YYYY-MM-DD" of calendar    *)
(*                                  day n (days since 2022-01-01)          *)
(*       [digits |-> n, deco |-> d] the string made of the decimal digits  *)
(*                                  of the integer n, decorated with the   *)
(*                                  non-numeric characters d ("$", ",")    *)
(*       [num |-> n]                a finite number                        *)
(*       Null, Undefined, NaN                                              *)
(*   - An object is a sequence of [k, v] pairs with distinct keys, in      *)
(*     insertion order (the order Object.keys yields).                     *)
(*   - An instant (a JavaScript Date) is [t |-> seconds since              *)
(*     2022-01-01T00:00:00Z]; InvalidDate is the Date that isValid rejects. *)
(***************************************************************************)
EXTENDS Integers, Sequences, FiniteSets, TLC

VARIABLES
  host,      \* the host's time zone rules (process environment)
  signKey,   \* cfg.SIGN_PRIVATE_KEY
  now,       \* the wall clock, seconds since 2022-01-01T00:00:00Z
  input,     \* per request: the two uploaded files as csvParse returns them
  pc,        \* per request: position of the POST /upload handler
  norm,      \* per request: results of normalizeClients/normalizeTransactions
  scores,    \* per request: scoreAll(...).scores
  cases,     \* per request: buildCases(...)
  files,     \* per request: the named buffers of the evidence pack
  manifest,  \* per request: buildManifest(...)
  resp,      \* per request: the HTTP response
  store,     \* verifyStore.map : token -> entry
  timers,    \* pending setTimeout callbacks of verifyStore.put
  unit       \* direct calls of the exported pure functions

vars == <<host, signKey, now, input, pc, norm, scores, cases, files,
          manifest, resp, store, timers, unit>>

(***************************************************************************)
(* JavaScript values                                                       *)
(***************************************************************************)
Str(s) == [str |-> s]
Iso(n) == [iso |-> n]
NumStr(n, d) == [digits |-> n, deco |-> d]
Num(n) == [num |-> n]
Null == [null |-> TRUE]
Undefined == [undef |-> TRUE]
NaN == [nan |-> TRUE]
None == [none |-> TRUE]

IsStr(v) == "str" \in DOMAIN v
IsIso(v) == "iso" \in DOMAIN v
IsNumStr(v) == "digits" \in DOMAIN v
IsNum(v) == "num" \in DOMAIN v
IsString(v) == IsStr(v) \/ IsIso(v) \/ IsNumStr(v)
IsNullish(v) == v = Null \/ v = Undefined

\* JavaScript truthiness of a value
Truthy(v) ==
  IF IsStr(v) THEN v.str # ""
  ELSE IF IsNum(v) THEN v.num # 0
  ELSE IF IsIso(v) \/ IsNumStr(v) THEN TRUE
  ELSE FALSE

\* String.prototype.trim on the strings the inputs are drawn from
trim(s) ==
  CASE s = " Client_ID " -> "Client_ID"
    [] s = " yes " -> "yes"
    [] s = " ru" -> "ru"
    [] s = " " -> ""
    [] s = " High risk client. " -> "High risk client."
    [] OTHER -> s

\* String.prototype.toLowerCase on the strings the inputs are drawn from
toLowerCase(s) ==
  CASE s = "CustomerID" -> "customerid"
    [] s = "Client_ID" -> "client_id"
    [] s = " Client_ID " -> " client_id "
    [] s = "ID" -> "id"
    [] s = "Amount" -> "amount"
    [] s = "AMT" -> "amt"
    [] s = "Date" -> "date"
    [] s = "Notes" -> "notes"
    [] s = "Country" -> "country"
    [] s = "Channel" -> "channel"
    [] s = "TRUE" -> "true"
    [] s = "Yes" -> "yes"
    [] s = "Y" -> "y"
    [] s = "Remittance" -> "remittance"
    [] s = "Real Estate" -> "real estate"
    [] s = "Cash" -> "cash"
    [] s = "OUT" -> "out"
    [] s = "Credit" -> "credit"
    [] s = "AU" -> "au"
    [] s = "NZ" -> "nz"
    [] s = "RU" -> "ru"
    [] s = "AUD" -> "aud"
    [] OTHER -> s

\* String.prototype.toUpperCase on the strings the inputs are drawn from
toUpperCase(s) ==
  CASE s = "au" -> "AU"
    [] s = "nz" -> "NZ"
    [] s = "ru" -> "RU"
    [] s = " ru" -> " RU"
    [] s = "cn" -> "CN"
    [] s = "ae" -> "AE"
    [] s = "ir" -> "IR"
    [] s = "aud" -> "AUD"
    [] s = "usd" -> "USD"
    [] OTHER -> s

\* String.prototype.includes: the (string, substring) pairs for which it is
\* true, over the strings the inputs are drawn from and the keywords of the
\* source
includes(s, sub) ==
  \/ s = sub
  \/ sub = ""
  \/ <<s, sub>> \in {
       <<"branch_cash", "cash">>, <<"cash deposit", "cash">>,
       <<"inbound", "in">>, <<"incoming", "in">>, <<"outgoing", "out">>,
       <<"outgoing", "in">>, <<"swift wire", "wire">>,
       <<"swift wire", "swift">>, <<"bank transfer", "transfer">>,
       <<"money order", "mo">>, <<"remote", "mo">>,
       <<"remittance services", "remittance">>,
       <<"property law", "property">> }

\* /remittance|property|real ?estate/ matched against a lower-cased string
matchesHighRiskService(s) ==
  \/ includes(s, "remittance")
  \/ includes(s, "property")
  \/ includes(s, "real estate")
  \/ includes(s, "realestate")

\* (v ?? '').toString() for the values a CSV cell or a missing field can be
toString(v) ==
  IF IsNullish(v) THEN Str("") ELSE v

\* a slip: the name is trimmed but not lower-cased
lower_caseSensitive(v) ==
  LET s == toString(v)
  IN IF IsStr(s) THEN trim(s.str) ELSE "?"

\* lower = s => (s ?? '').toString().trim().toLowerCase()
lower(v) ==
  LET s == toString(v)
  IN IF IsStr(s) THEN toLowerCase(trim(s.str)) ELSE "?"

(***************************************************************************)
(* Objects: sequences of [k, v] pairs with distinct keys                   *)
(***************************************************************************)
Keys(o) == [i \in 1..Len(o) |-> o[i].k]
Has(o, key) == \E i \in 1..Len(o) : o[i].k = key
Get(o, key) ==
  IF Has(o, key) THEN o[CHOOSE i \in 1..Len(o) : o[i].k = key].v
  ELSE Undefined
\* o[key] = v : overwrite in place, or append a new key
Put(o, key, val) ==
  IF Has(o, key)
  THEN [i \in 1..Len(o) |-> IF o[i].k = key THEN [k |-> key, v |-> val] ELSE o[i]]
  ELSE Append(o, [k |-> key, v |-> val])

(***************************************************************************)
(* Header synonym tables                                                   *)
(***************************************************************************)
CLIENT_MAP == <<
  [can |-> "client_id", aliases |-> <<"client_id","clientid","customer_id","customerid","id">>],
  [can |-> "full_name", aliases |-> <<"full_name","name","client_name","fullname">>],
  [can |-> "dob", aliases |-> <<"dob","date_of_birth","birthdate">>],
  [can |-> "residency_country", aliases |-> <<"residency_country","country","country_of_residence","residence_country">>],
  [can |-> "delivery_channel", aliases |-> <<"delivery_channel","channel","onboarding_channel">>],
  [can |-> "services", aliases |-> <<"services","service","products">>],
  [can |-> "pep_flag", aliases |-> <<"pep","pep_flag","is_pep">>],
  [can |-> "sanctions_flag", aliases |-> <<"sanctions","sanctions_flag","is_sanctioned">>],
  [can |-> "kyc_last_reviewed_at", aliases |-> <<"kyc_last_reviewed_at","kyc_date","kyc_last_reviewed","last_kyc">>] >>

TX_MAP == <<
  [can |-> "tx_id", aliases |-> <<"tx_id","transaction_id","id">>],
  [can |-> "client_id", aliases |-> <<"client_id","clientid","customer_id","customerid">>],
  [can |-> "date", aliases |-> <<"date","tx_date","timestamp","posted_at">>],
  [can |-> "amount", aliases |-> <<"amount","amt","value">>],
  [can |-> "currency", aliases |-> <<"currency","ccy">>],
  [can |-> "direction", aliases |-> <<"direction","dr_cr","in_out","flow">>],
  [can |-> "method", aliases |-> <<"method","instrument","channel">>],
  [can |-> "counterparty_name", aliases |-> <<"counterparty_name","payer_name","payee_name","beneficiary">>],
  [can |-> "counterparty_country", aliases |-> <<"counterparty_country","cp_country","country_to","country_from","destination_country","origin_country">>],
  [can |-> "matter_id", aliases |-> <<"matter_id","file_id","case_id","engagement_id">>] >>

CASH_KEYS == <<"cash", "notes", "branch_cash">>
OUT_KEYS == <<"out", "debit", "send">>
IN_KEYS == <<"in", "credit", "receive">>

SeqHas(seq, x) == \E i \in 1..Len(seq) : seq[i] = x

\* Object.keys(dict).find(can => dict[can].some(a => a === lk)), then
\* canonical || lk
canonicalOf(dict, lk) ==
  LET hits == {i \in 1..Len(dict) : SeqHas(dict[i].aliases, lk)}
  IN IF hits = {} THEN lk
     ELSE LET first == CHOOSE i \in hits : \A j \in hits : i <= j
          IN IF dict[first].can # "" THEN dict[first].can ELSE lk

RECURSIVE mapHeadersFrom(_, _, _, _)
mapHeadersFrom(row, dict, i, out) ==
  IF i > Len(row) THEN out
  ELSE mapHeadersFrom(row, dict, i + 1,
         Put(out, canonicalOf(dict, lower(Str(row[i].k))), row[i].v))

mapHeaders(row, dict) == mapHeadersFrom(row, dict, 1, <<>>)

\* the headerMap loop of normalizeClients / normalizeTransactions
RECURSIVE headerMapFrom(_, _, _, _)
headerMapFrom(row, dict, i, out) ==
  IF i > Len(row) THEN out
  ELSE headerMapFrom(row, dict, i + 1,
         Put(out, row[i].k, Str(canonicalOf(dict, lower(Str(row[i].k))))))

headerMapOf(rows, dict) ==
  IF Len(rows) > 0 THEN headerMapFrom(rows[1], dict, 1, <<>>) ELSE <<>>

normalizeClients(rows) ==
  [clients |-> [i \in 1..Len(rows) |-> mapHeaders(rows[i], CLIENT_MAP)],
   clientHeaderMap |-> headerMapOf(rows, CLIENT_MAP)]

(***************************************************************************)
(* Dates (date-fns on the host's local time scale)                         *)
(***************************************************************************)
\* 24*3600 seconds: the day length the span computations divide by
DaySecs == 86400
HourSecs == DaySecs \div 24

\* the host's UTC offset, in seconds, on local calendar day n
off(n) == (host.base + (IF n >= host.dstFrom THEN 1 ELSE 0)) * HourSecs

InvalidDate == [invalid |-> TRUE]
isValid(d) == "t" \in DOMAIN d

\* local midnight of calendar day n as an instant
LocalMidnight(n) == n * DaySecs - off(n)

\* the local calendar day an instant falls on
LocalDay(t) ==
  CHOOSE n \in ((t \div DaySecs) - 2)..((t \div DaySecs) + 2) :
    LocalMidnight(n) <= t /\ t < LocalMidnight(n + 1)

\* parseISO: a date-only ISO string is local midnight of that day; anything
\* else the inputs contain is not a date
parseISO(v) ==
  IF IsIso(v) THEN [t |-> LocalMidnight(v.iso)] ELSE InvalidDate

\* d.toISOString().slice(0, 10): the UTC calendar day of the instant
toISODate(d) == Iso(d.t \div DaySecs)

\* days in each month, January 2022 to December 2026
MonthLen == <<31,28,31,30,31,30,31,31,30,31,30,31,
              31,28,31,30,31,30,31,31,30,31,30,31,
              31,29,31,30,31,30,31,31,30,31,30,31,
              31,28,31,30,31,30,31,31,30,31,30,31,
              31,28,31,30,31,30,31,31,30,31,30,31>>

RECURSIVE daysBefore(_)
daysBefore(m) == IF m = 1 THEN 0 ELSE daysBefore(m - 1) + MonthLen[m - 1]

\* day number of the first day of each month
MonthStartTable == [m \in 1..Len(MonthLen) |-> daysBefore(m)]
MonthStart(m) == MonthStartTable[m]

MonthOf(n) ==
  CHOOSE m \in 1..Len(MonthLen) : MonthStart(m) <= n /\ n < MonthStart(m) + MonthLen[m]

Min(a, b) == IF a <= b THEN a ELSE b
Abs(a) == IF a < 0 THEN 0 - a ELSE a

\* subMonths(d, k): same local time of day, k months earlier, the day of the
\* month clamped to the length of the target month
subMonths(d, k) ==
  LET n   == LocalDay(d.t)
      tod == d.t - LocalMidnight(n)
      m   == MonthOf(n)
      dom == n - MonthStart(m)
      m2  == m - k
      n2  == MonthStart(m2) + Min(dom, MonthLen[m2] - 1)
  IN [t |-> LocalMidnight(n2) + tod]

\* a slip: the difference is not made absolute
daysBetween_signed(aISO, bISO) ==
  LET a == parseISO(aISO)
      b == parseISO(bISO)
  IN IF ~isValid(a) \/ ~isValid(b) THEN Null
     ELSE Num(LocalDay(b.t) - LocalDay(a.t))

\* utils.js
daysBetween(aISO, bISO) ==
  LET a == parseISO(aISO)
      b == parseISO(bISO)
  IN IF ~isValid(a) \/ ~isValid(b) THEN Null
     ELSE Num(Abs(LocalDay(a.t) - LocalDay(b.t)))

monthsBetween(aISO, bISO) ==
  LET days == daysBetween(aISO, bISO)
  IN IF days = Null THEN Null ELSE Num(days.num \div 30)

(***************************************************************************)
(* normalizeTransactions                                                   *)
(***************************************************************************)
\* s.replace(/[^0-9.-]/g, '') on the strings amounts are drawn from
\* (NumStr(n, deco) is the decimal numeral of n, with its sign if n < 0,
\* decorated with the characters of deco, which the replace removes)
stripNonNumeric(v) ==
  IF IsNumStr(v) THEN NumStr(v.digits, "")
  ELSE IF IsStr(v)
       THEN Str(CASE v.str = "-" -> "-"
                  [] v.str = "1.2.3" -> "1.2.3"
                  [] v.str = "n/a" -> ""
                  [] v.str = "abc" -> ""
                  [] OTHER -> "")
  ELSE v

\* Number(v)
Number(v) ==
  IF IsNumStr(v) THEN (IF v.deco = "" THEN Num(v.digits) ELSE NaN)
  ELSE IF IsStr(v) THEN (IF trim(v.str) = "" THEN Num(0) ELSE NaN)
  ELSE IF IsNum(v) THEN v
  ELSE IF v = Null THEN Num(0)
  ELSE NaN

isFinite(v) == IsNum(v)

someIncludes(keys, s) == \E i \in 1..Len(keys) : includes(s, keys[i])

\* lines 96-101
directionOf(t) ==
  LET dirRaw == lower(Get(t, "direction"))
  IN IF someIncludes(OUT_KEYS, dirRaw) THEN Str("out")
     ELSE IF someIncludes(IN_KEYS, dirRaw) THEN Str("in")
     ELSE IF dirRaw = "in" \/ dirRaw = "out" THEN Str(dirRaw)
     ELSE Null

\* lines 103-111
methodOf(t) ==
  LET mRaw == lower(Get(t, "method"))
  IN IF someIncludes(CASH_KEYS, mRaw) THEN Str("cash")
     ELSE IF includes(mRaw, "wire") \/ includes(mRaw, "swift") \/ includes(mRaw, "intl") THEN Str("wire")
     ELSE IF includes(mRaw, "eft") \/ includes(mRaw, "ach") \/ includes(mRaw, "transfer") THEN Str("eft")
     ELSE IF includes(mRaw, "cheque") \/ includes(mRaw, "check") THEN Str("cheque")
     ELSE IF includes(mRaw, "mo") \/ includes(mRaw, "money order") THEN Str("money_order")
     ELSE IF mRaw # "" THEN Str(mRaw) ELSE Null

\* x || dflt
OrElse(x, dflt) == IF Truthy(x) THEN x ELSE dflt
\* x ?? dflt
Coalesce(x, dflt) == IF IsNullish(x) THEN dflt ELSE x

upperOf(v) == IF IsStr(v) THEN Str(toUpperCase(v.str)) ELSE v
trimOf(v) == IF IsStr(v) THEN Str(trim(v.str)) ELSE v

\* the body of rows.map((r, i) => ...) up to the construction of tx
coerceRow(r) ==
  LET t    == mapHeaders(r, TX_MAP)
      dv   == Get(t, "date")
      d0   == IF IsString(dv) THEN parseISO(dv) ELSE InvalidDate
      av   == Get(t, "amount")
      amt0 == IF IsString(av) THEN Number(stripNonNumeric(av)) ELSE Number(av)
      amt  == IF isFinite(amt0) THEN amt0 ELSE Null
      ctry == upperOf(trimOf(toString(OrElse(Get(t, "counterparty_country"), Str("")))))
  IN [tx_id |-> Coalesce(Get(t, "tx_id"), Null),
      client_id |-> toString(Coalesce(Get(t, "client_id"), Str(""))),
      date |-> IF isValid(d0) THEN toISODate(d0) ELSE Null,
      amount |-> amt,
      currency |-> upperOf(toString(OrElse(Get(t, "currency"), Str("AUD")))),
      direction |-> directionOf(t),
      method |-> methodOf(t),
      counterparty_name |-> OrElse(Get(t, "counterparty_name"), Null),
      counterparty_country |-> OrElse(ctry, Null),
      matter_id |-> OrElse(Get(t, "matter_id"), Null)]

\* line 128
rejected(tx) ==
  ~Truthy(tx.client_id) \/ ~Truthy(tx.date) \/ ~isFinite(tx.amount)

\* rows.map(...).filter(Boolean): the rows that were not rejected
RECURSIVE acceptedFrom(_, _)
acceptedFrom(coerced, i) ==
  IF i > Len(coerced) THEN <<>>
  ELSE (IF rejected(coerced[i]) THEN <<>> ELSE <<coerced[i]>>)
       \o acceptedFrom(coerced, i + 1)

\* a slip: the index pushed is the row number counted from one
RECURSIVE rejectsFrom_oneBased(_, _, _)
rejectsFrom_oneBased(rows, coerced, i) ==
  IF i > Len(rows) THEN <<>>
  ELSE (IF rejected(coerced[i])
        THEN <<[index |-> i, reason |-> "Missing client_id/date/amount", row |-> rows[i]]>>
        ELSE <<>>) \o rejectsFrom_oneBased(rows, coerced, i + 1)

\* line 129: rejects.push({ index: i, reason, row: r })
RECURSIVE rejectsFrom(_, _, _)
rejectsFrom(rows, coerced, i) ==
  IF i > Len(rows) THEN <<>>
  ELSE (IF rejected(coerced[i])
        THEN <<[index |-> i - 1, reason |-> "Missing client_id/date/amount", row |-> rows[i]]>>
        ELSE <<>>) \o rejectsFrom(rows, coerced, i + 1)

\* txs.reduce((acc, t) => !acc || isAfter(d, acc) ? d : acc, null)
RECURSIVE latestFrom(_, _, _)
latestFrom(txs, i, acc) ==
  IF i > Len(txs) THEN acc
  ELSE LET d == parseISO(txs[i].date)
       IN latestFrom(txs, i + 1,
            IF acc = Null \/ (isValid(d) /\ d.t > acc.t) THEN d ELSE acc)

normalizeTransactions(rows, clock) ==
  LET coerced == CHOOSE l \in {[i \in 1..Len(rows) |-> coerceRow(rows[i])]} : TRUE
      txs    == acceptedFrom(coerced, 1)
      latest == latestFrom(txs, 1, Null)
      ref    == IF latest = Null THEN [t |-> clock] ELSE latest
  IN [txs |-> txs,
      rejects |-> rejectsFrom(rows, coerced, 1),
      txHeaderMap |-> headerMapOf(rows, TX_MAP),
      lookback |-> [end |-> toISODate(ref), start |-> toISODate(subMonths(ref, 18))]]

(***************************************************************************)
(* countryRisk.js                                                          *)
(***************************************************************************)
VERY_HIGH_RISK == <<"IR", "KP", "RU">>
INCREASED_MONITORING == <<"AE", "TR", "MY", "PH", "BG", "MA">>
CORRIDOR_SET == <<"RU", "CN", "HK", "AE", "IN", "IR">>

(***************************************************************************)
(* rules.js : scoreAll                                                     *)
(***************************************************************************)
reason(text, points, family) ==
  [type |-> "reason", family |-> family, points |-> points, text |-> text]

\* a slip: the note is built like a scoring reason
context_scored(text) == [type |-> "context", family |-> "corridor", points |-> 0, text |-> text]

context(text) == [type |-> "context", text |-> text]

truthy(v) == lower(v) \in {"true", "yes", "y", "1"}

\* a slip: the family total is overwritten instead of accumulated
addReason_overwrite(acc, text, points, family) ==
  [reasons |-> Append(acc.reasons, reason(text, points, family)),
   fam |-> [acc.fam EXCEPT ![family] = points]]

\* a slip: reasons.unshift instead of reasons.push
addReason_unshift(acc, text, points, family) ==
  [reasons |-> <<reason(text, points, family)>> \o acc.reasons,
   fam |-> [acc.fam EXCEPT ![family] = @ + points]]

\* the accumulator addReason closes over: the reasons list and fam
addReason(acc, text, points, family) ==
  [reasons |-> Append(acc.reasons, reason(text, points, family)),
   fam |-> [acc.fam EXCEPT ![family] = @ + points]]

\* !isValid(d) || d < from || d > to  -> skipped; a comparison with an
\* invalid Date is false
inWindow(t, lookback) ==
  LET from == parseISO(lookback.start)
      to   == parseISO(lookback.end)
      d    == parseISO(t.date)
  IN /\ isValid(d)
     /\ ~(isValid(from) /\ d.t < from.t)
     /\ ~(isValid(to) /\ d.t > to.t)

\* byClient.get(cid) || [] : the in-window transactions of cid, in input order
byClientGet(txs, lookback, cid) ==
  SelectSeq(txs, LAMBDA t : inWindow(t, lookback) /\ t.client_id = cid)

\* insertion sort of instants, ascending: .sort((a,b) => a - b)
RECURSIVE insertDate(_, _)
insertDate(sorted, d) ==
  IF sorted = <<>> THEN <<d>>
  ELSE IF d.t < Head(sorted).t THEN <<d>> \o sorted
  ELSE <<Head(sorted)>> \o insertDate(Tail(sorted), d)

RECURSIVE sortDates(_)
sortDates(ds) ==
  IF ds = <<>> THEN <<>> ELSE insertDate(sortDates(Tail(ds)), Head(ds))

\* a slip: the tolerance is dropped and a span of exactly windowDays fits
spanFits_inclusive(a, b, windowDays) == (b.t - a.t) <= windowDays * DaySecs

\* spanDays <= windowDays - 1e-9, spanDays = (b - a) / (24*3600*1000):
\* instants here are whole seconds and 1e-9 day is less than a second, so
\* the comparison is "fewer than windowDays * 86400 seconds apart"
spanFits(a, b, windowDays) == (b.t - a.t) < windowDays * DaySecs

\* a slip: only the first `required` dates of the sorted sequence are examined
hasNInWindow_firstOnly(txList, required, windowDays) ==
  IF Len(txList) < required THEN FALSE
  ELSE LET parsed == [i \in 1..Len(txList) |-> parseISO(txList[i].date)]
           dates  == sortDates(SelectSeq(parsed, isValid))
       IN Len(dates) >= required /\ spanFits(dates[1], dates[required], windowDays)

hasNInWindow(txList, required, windowDays) ==
  IF Len(txList) < required THEN FALSE
  ELSE LET parsed == [i \in 1..Len(txList) |-> parseISO(txList[i].date)]
           dates  == sortDates(SelectSeq(parsed, isValid))
       IN \E i \in 1..(Len(dates) - required + 1) :
            spanFits(dates[i], dates[i + required - 1], windowDays)

isCashIn(t) ==
  /\ t.direction = Str("in") /\ t.method = Str("cash")
  /\ isFinite(t.amount) /\ t.amount.num >= 9600 /\ t.amount.num <= 9999

isLargeDomestic(t) ==
  /\ t.direction = Str("out")
  /\ isFinite(t.amount) /\ t.amount.num >= 100000
  /\ (~Truthy(t.counterparty_country) \/ t.counterparty_country = Str("AU"))

isCorridor(t) ==
  /\ t.direction = Str("out")
  /\ IsStr(t.counterparty_country)
  /\ SeqHas(CORRIDOR_SET, t.counterparty_country.str)

\* [...new Set(list.map(t => t.counterparty_country))]
RECURSIVE distinctFrom(_, _, _)
distinctFrom(list, i, out) ==
  IF i > Len(list) THEN out
  ELSE distinctFrom(list, i + 1,
         IF SeqHas(out, list[i].counterparty_country.str) THEN out
         ELSE Append(out, list[i].counterparty_country.str))

\* a slip: the countries are taken from the list without the Set
distinctCountries_all(list) ==
  [i \in 1..Len(list) |-> list[i].counterparty_country.str]

distinctCountries(list) == distinctFrom(list, 1, <<>>)

\* the context-note loop, lines 58-62
RECURSIVE contextNotes(_, _)
contextNotes(countries, i) ==
  IF i > Len(countries) THEN <<>>
  ELSE (IF SeqHas(VERY_HIGH_RISK, countries[i])
        THEN <<context([note |-> "FATF call-for-action", cc |-> countries[i]])>>
        ELSE IF SeqHas(INCREASED_MONITORING, countries[i])
        THEN <<context([note |-> "FATF increased monitoring", cc |-> countries[i]])>>
        ELSE <<>>) \o contextNotes(countries, i + 1)

\* a slip: the profile family is capped at the sum of its two flags
caps_profile60 == [profile |-> 60, behavior |-> 25, corridor |-> 20]

caps == [profile |-> 20, behavior |-> 25, corridor |-> 20]

\* a slip: the boundary values fall into the lower band
bandOf_strict(total) == IF total > 30 THEN "High" ELSE IF total > 15 THEN "Medium" ELSE "Low"

bandOf(total) == IF total >= 30 THEN "High" ELSE IF total >= 15 THEN "Medium" ELSE "Low"

\* if (cond) addReason(text, points, family), for each rule in turn
RECURSIVE applyRules(_, _, _)
applyRules(acc, rules, i) ==
  IF i > Len(rules) THEN acc
  ELSE applyRules(IF rules[i].cond
                  THEN addReason(acc, rules[i].text, rules[i].points, rules[i].family)
                  ELSE acc,
                  rules, i + 1)

Rule(cond, text, points, family) ==
  [cond |-> cond, text |-> text, points |-> points, family |-> family]

\* c.client_id || c.id || c.customer_id || 'unknown'
clientIdOf(c) ==
  OrElse(Get(c, "client_id"),
    OrElse(Get(c, "id"), OrElse(Get(c, "customer_id"), Str("unknown"))))

\* lines 34-35
staleKyc(c, lookback) ==
  LET kyc == Get(c, "kyc_last_reviewed_at")
      kycMonths == IF Truthy(kyc) THEN monthsBetween(kyc, lookback.end) ELSE Null
  IN [months |-> kycMonths, stale |-> kycMonths # Null /\ kycMonths.num >= 12]

\* line 37
highRiskServices(c) ==
  LET svc == toString(OrElse(Get(c, "services"), Str("")))
  IN IsStr(svc) /\ matchesHighRiskService(toLowerCase(svc.str))

\* line 40
residencyOf(c) ==
  upperOf(trimOf(toString(OrElse(Get(c, "residency_country"), Str("")))))

\* a slip: one transfer is enough
corridorTriggers_single(corridorTx) ==
  /\ Len(corridorTx) >= 1
  /\ \E i \in 1..Len(corridorTx) : corridorTx[i].amount.num >= 20000

\* line 52
corridorTriggers(corridorTx) ==
  /\ Len(corridorTx) >= 2
  /\ \E i \in 1..Len(corridorTx) : corridorTx[i].amount.num >= 20000

\* the body of the loop over clients up to the band, lines 24-67
scoreClient(c, txs, lookback) ==
  LET cid == clientIdOf(c)
  IN \* evaluated once: the client's in-window transactions
     LET my == CHOOSE l \in {byClientGet(txs, lookback, cid)} : TRUE
         kyc == staleKyc(c, lookback)
         resCtry == residencyOf(c)
         cashIn == SelectSeq(my, isCashIn)
         corridorTx == SelectSeq(my, isCorridor)
         rules == <<
           Rule(truthy(Get(c, "pep_flag")), [rule |-> "PEP flag present"], 30, "profile"),
           Rule(truthy(Get(c, "sanctions_flag")), [rule |-> "Sanctions flag present"], 30, "profile"),
           Rule(kyc.stale, [rule |-> "KYC last reviewed", months |-> kyc.months], 10, "profile"),
           Rule(highRiskServices(c), [rule |-> "Higher-risk services"], 8, "profile"),
           Rule(Truthy(resCtry) /\ resCtry # Str("AU"), [rule |-> "Non-resident", cc |-> resCtry], 6, "profile"),
           Rule(hasNInWindow(cashIn, 4, 7), [rule |-> "Structuring"], 25, "behavior"),
           Rule(\E i \in 1..Len(my) : isLargeDomestic(my[i]), [rule |-> "Large domestic transfer"], 15, "behavior"),
           Rule(corridorTriggers(corridorTx),
                [rule |-> "High-risk corridor", count |-> Len(corridorTx),
                 countries |-> distinctCountries(corridorTx)], 20, "corridor") >>
         acc == applyRules([reasons |-> <<>>,
                            fam |-> [profile |-> 0, behavior |-> 0, corridor |-> 0]],
                           rules, 1)
         reasons == acc.reasons \o contextNotes(distinctCountries(corridorTx), 1)
         total == Min(acc.fam.profile, caps.profile) + Min(acc.fam.behavior, caps.behavior)
                  + Min(acc.fam.corridor, caps.corridor)
     IN [client_id |-> cid, score |-> total, band |-> bandOf(total), reasons |-> reasons]

\* what the chat completion does for one client: the call (or the import of
\* the package) throws, or it resolves with a content
Throws == [throws |-> TRUE]

\* lines 69-85: the optional narrative; ai[i] is the completion for client i
narrativeOf(openaiApiKey, ai, i) ==
  IF ~Truthy(openaiApiKey) THEN Null
  ELSE IF ai[i] = Throws THEN Null
  ELSE IF ~IsStr(ai[i]) THEN Null
  ELSE OrElse(Str(trim(ai[i].str)), Null)

\* a slip: the narrative is also recorded among the reasons
scoreRecord_asReason(rec, narrative) ==
  IF narrative # Null
  THEN [client_id |-> rec.client_id, score |-> rec.score, band |-> rec.band,
        reasons |-> Append(rec.reasons, [type |-> "context", text |-> narrative.str]),
        narrative |-> narrative]
  ELSE rec

\* line 87: { client_id, score, band, reasons, ...(narrative ? { narrative } : {}) }
scoreRecord(rec, narrative) ==
  IF narrative # Null
  THEN [client_id |-> rec.client_id, score |-> rec.score, band |-> rec.band,
        reasons |-> rec.reasons, narrative |-> narrative]
  ELSE rec

scoreAll(clients, txs, lookback, openaiApiKey, ai) ==
  [i \in 1..Len(clients) |->
     scoreRecord(scoreClient(clients[i], txs, lookback),
                 narrativeOf(openaiApiKey, ai, i))]

rulesMeta ==
  [id |-> "dnfbp-2025.11", lookback_months |-> 18,
   bands |-> [High |-> ">=30", Medium |-> ">=15", Low |-> "<15"],
   caps |-> caps, corridor_countries |-> CORRIDOR_SET,
   sources |-> [fatf_call_for_action_as_at |-> "2025-10-24",
                fatf_grey_list_as_at |-> "2025-06-13",
                au_tranche2_context_as_at |-> "2025-10-20"]]

(***************************************************************************)
(* cases.js : buildCases                                                   *)
(***************************************************************************)
pickTx(t) ==
  [tx_id |-> Coalesce(t.tx_id, Null), date |-> t.date, amount |-> t.amount,
   currency |-> t.currency, method |-> t.method,
   counterparty_country |-> t.counterparty_country]

\* .sort((a,b) => a.date.localeCompare(b.date)) : stable, ascending by date
RECURSIVE insertByDate(_, _)
insertByDate(sorted, t) ==
  IF sorted = <<>> THEN <<t>>
  ELSE IF t.date.iso < Head(sorted).date.iso THEN <<t>> \o sorted
  ELSE <<Head(sorted)>> \o insertByDate(Tail(sorted), t)

RECURSIVE sortByDate(_)
sortByDate(list) ==
  IF list = <<>> THEN <<>>
  ELSE insertByDate(sortByDate(SubSeq(list, 1, Len(list) - 1)), list[Len(list)])

\* a slip: the list of samples is not cut
slice5_all(list) == list

slice5(list) == SubSeq(list, 1, Min(5, Len(list)))

mapPick(list) == [i \in 1..Len(list) |-> pickTx(list[i])]

\* keys of byClient in insertion order: client ids by first in-window tx
RECURSIVE clientOrder(_, _, _, _)
clientOrder(txs, lookback, i, out) ==
  IF i > Len(txs) THEN out
  ELSE clientOrder(txs, lookback, i + 1,
         IF inWindow(txs[i], lookback) /\ ~SeqHas(out, txs[i].client_id)
         THEN Append(out, txs[i].client_id) ELSE out)

\* cases.js line 28
corridorCase(corridor) ==
  /\ Len(corridor) >= 2
  /\ \E i \in 1..Len(corridor) : corridor[i].amount.num >= 20000

casesOfClient(txs, lookback, cid) ==
  LET list     == byClientGet(txs, lookback, cid)
      cashIn   == sortByDate(SelectSeq(list, isCashIn))
      corridor == SelectSeq(list, isCorridor)
      large    == SelectSeq(list, isLargeDomestic)
  IN (IF hasNInWindow(cashIn, 4, 7)
      THEN <<[type |-> "structuring", client_id |-> cid,
              rule |-> ">=4 cash deposits A$9,600-9,999 within 7 days",
              samples |-> mapPick(slice5(cashIn))]>>
      ELSE <<>>)
     \o (IF corridorCase(corridor)
         THEN <<[type |-> "corridor", client_id |-> cid,
                 rule |-> ">=2 transfers to RU/CN/HK/AE/IN/IR with >=1 >= A$20k",
                 countries |-> distinctCountries(corridor),
                 samples |-> mapPick(slice5(corridor))]>>
         ELSE <<>>)
     \o (IF Len(large) > 0
         THEN <<[type |-> "large_domestic", client_id |-> cid,
                 rule |-> "Domestic transfer >= A$100k",
                 samples |-> mapPick(slice5(large))]>>
         ELSE <<>>)

RECURSIVE casesFrom(_, _, _, _)
casesFrom(txs, lookback, order, i) ==
  IF i > Len(order) THEN <<>>
  ELSE casesOfClient(txs, lookback, order[i]) \o casesFrom(txs, lookback, order, i + 1)

buildCases(txs, lookback) ==
  casesFrom(txs, lookback, clientOrder(txs, lookback, 1, <<>>), 1)

(***************************************************************************)
(* Buffers: JSON.stringify / Buffer.from as a sequence of tokens, one per  *)
(* bracket and one per key/value pair, in serialization order              *)
(***************************************************************************)
RECURSIVE Concat(_)
Concat(ss) == IF ss = <<>> THEN <<>> ELSE Head(ss) \o Concat(Tail(ss))

Open == [punct |-> "{"]
Close == [punct |-> "}"]
KV(key, val) == [key |-> key, val |-> val]

jsonObject(o) == <<Open>> \o [i \in 1..Len(o) |-> KV(o[i].k, o[i].v)] \o <<Close>>

jsonClients(clients) == Concat([i \in 1..Len(clients) |-> jsonObject(clients[i])])

jsonTx(t) ==
  <<Open, KV("tx_id", t.tx_id), KV("client_id", t.client_id), KV("date", t.date),
    KV("amount", t.amount), KV("currency", t.currency), KV("direction", t.direction),
    KV("method", t.method), KV("counterparty_name", t.counterparty_name),
    KV("counterparty_country", t.counterparty_country), KV("matter_id", t.matter_id), Close>>

jsonTxs(txs) == Concat([i \in 1..Len(txs) |-> jsonTx(txs[i])])

jsonSample(x) ==
  <<Open, KV("tx_id", x.tx_id), KV("date", x.date), KV("amount", x.amount),
    KV("currency", x.currency), KV("method", x.method),
    KV("counterparty_country", x.counterparty_country), Close>>

jsonCase(c) ==
  <<Open, KV("type", Str(c.type)), KV("client_id", c.client_id), KV("rule", Str(c.rule))>>
  \o (IF "countries" \in DOMAIN c
      THEN [i \in 1..Len(c.countries) |-> KV("countries", Str(c.countries[i]))]
      ELSE <<>>)
  \o Concat([i \in 1..Len(c.samples) |-> jsonSample(c.samples[i])])
  \o <<Close>>

jsonCases(cs) == Concat([i \in 1..Len(cs) |-> jsonCase(cs[i])])

jsonReject(r) ==
  <<Open, KV("index", Num(r.index)), KV("reason", Str(r.reason))>>
  \o jsonObject(r.row) \o <<Close>>

\* server.js lines 170-177: the page embeds the time of generation
programHtml(clock, clientHeaderMap, txHeaderMap, rejects) ==
  <<KV("title", Str("TrancheReady Evidence")),
    KV("Generated", Num(clock)),
    KV("Ruleset", Str(rulesMeta.id))>>
  \o jsonObject(clientHeaderMap) \o jsonObject(txHeaderMap)
  \o Concat([i \in 1..Len(rejects) |-> jsonReject(rejects[i])])

(***************************************************************************)
(* manifest.js : buildManifest                                             *)
(***************************************************************************)
\* SHA-256 as a collision-free digest of the bytes it is given
sha256Hex(buf) == [sha256 |-> buf]

NoKey == [b64 |-> "", bytes |-> 0]
GoodKey == [b64 |-> "c2VjcmV0LWtleS02NA==", bytes |-> 64]
ShortKey == [b64 |-> "c2hvcnQ=", bytes |-> 5]

\* nacl.sign.detached throws 'bad secret key size' unless the key is 64 bytes
signThrows(key) == key.bytes # 64

\* Ed25519 is deterministic: the signature is a function of message and key
signDetached(message, key) == [signed |-> message, by |-> key.b64]

\* a slip: one hash object is fed every buffer in turn
manifestFiles_running(namedFiles) ==
  [i \in 1..Len(namedFiles) |->
     [name |-> namedFiles[i].name, bytes |-> Len(namedFiles[i].buf),
      sha256 |-> sha256Hex(Concat([j \in 1..i |-> namedFiles[j].buf]))]]

manifestFiles(namedFiles) ==
  [i \in 1..Len(namedFiles) |->
     [name |-> namedFiles[i].name, bytes |-> Len(namedFiles[i].buf),
      sha256 |-> sha256Hex(namedFiles[i].buf)]]

\* a slip: the whole manifest is serialized and signed
signedMessage_whole(m) == m

signedMessage(m) ==
  [files |-> m.files, created_utc |-> m.created_utc, ruleset_id |-> m.ruleset_id]

\* a slip: no try/catch around the signing step
buildManifest_nocatch(namedFiles, meta, clock, key) ==
  LET m == [schema |-> "trancheready.manifest.v1",
            created_utc |-> clock,
            app_version |-> "1.0.0",
            ruleset_id |-> IF meta.id # "" THEN meta.id ELSE "dnfbp-starter",
            hash_algo |-> "sha256",
            files |-> manifestFiles(namedFiles),
            sources |-> meta.sources]
  IN IF key.b64 = "" THEN m
     ELSE IF signThrows(key) THEN [threw |-> "bad secret key size"]
     ELSE m @@ [signing |-> [alg |-> "ed25519", key_id |-> "trancheready",
                             signature |-> signDetached(signedMessage(m), key)]]

buildManifest(namedFiles, meta, clock, key) ==
  LET m == [schema |-> "trancheready.manifest.v1",
            created_utc |-> clock,
            app_version |-> "1.0.0",
            ruleset_id |-> IF meta.id # "" THEN meta.id ELSE "dnfbp-starter",
            hash_algo |-> "sha256",
            files |-> manifestFiles(namedFiles),
            sources |-> meta.sources]
  IN IF key.b64 # "" /\ ~signThrows(key)
     THEN m @@ [signing |-> [alg |-> "ed25519", key_id |-> "trancheready",
                             signature |-> signDetached(signedMessage(m), key)]]
     ELSE m

\* a slip: the last entry given is written to the archive first
zipNamedBuffers_lastFirst(namedBuffers) ==
  [zip |-> <<namedBuffers[Len(namedBuffers)]>>
             \o SubSeq(namedBuffers, 1, Len(namedBuffers) - 1)]

\* zip.js : entries in insertion order
zipNamedBuffers(namedBuffers) == [zip |-> namedBuffers]

\* 2025-10-15, the day the transactions of the inputs are dated around
Day0 == MonthStart(46) + 14
\* 2025-10-16T23:59:55Z, when the uploads begin: five seconds before the
\* UTC date changes
StartOfClock == (Day0 + 2) * DaySecs - 5
\* how many seconds the wall clock is followed for
MaxClock == 10

(***************************************************************************)
(* server.js : POST /upload, and verify-store.js : put                     *)
(***************************************************************************)
Req == {1, 2}
Tokens == {"tokA", "tokB"}
VERIFY_TTL_MIN == 60

NoInput == [clients |-> None, transactions |-> None]
Csv(rows) == [rows |-> rows]
Unparseable == [unparseable |-> TRUE]
parses(f) == "rows" \in DOMAIN f

\* verifyStore.put(token, zipBuffer, manifest, ttlMinutes)
putEntry(token, zipBuffer, m, ttlMinutes) ==
  [store EXCEPT ![token] =
     [zipBuffer |-> zipBuffer, manifest |-> m, expiresAt |-> now + ttlMinutes * 60]]
putTimer(token, ttlMinutes) ==
  timers \cup {[token |-> token, at |-> now + ttlMinutes * 60 + 5]}

\* verifyStore.get(token): what it returns and the map it leaves
get(token) ==
  IF store[token] = None THEN [entry |-> Null, map |-> store]
  ELSE IF store[token].expiresAt < now
       THEN [entry |-> Null, map |-> [store EXCEPT ![token] = None]]
       ELSE [entry |-> store[token], map |-> store]

\* a slip: the callback runs but deletes nothing
TimerFires_noDelete ==
  /\ \E tm \in timers :
       /\ tm.at <= now
       /\ timers' = timers \ {tm}
  /\ UNCHANGED <<host, signKey, now, input, pc, norm, scores, cases, files,
                 manifest, resp, store, unit>>

\* the callback of setTimeout(() => this.map.delete(token), ...), once due
TimerFires ==
  /\ \E tm \in timers :
       /\ tm.at <= now
       /\ store' = [store EXCEPT ![tm.token] = None]
       /\ timers' = timers \ {tm}
  /\ UNCHANGED <<host, signKey, now, input, pc, norm, scores, cases, files,
                 manifest, resp, unit>>

\* GET /verify/:token
verifyResponse(token) ==
  LET entry == get(token).entry
  IN IF entry = Null THEN [status |-> 404]
     ELSE [status |-> 200, manifest |-> entry.manifest]

\* GET /download/:token
downloadResponse(token) ==
  LET entry == get(token).entry
  IN IF entry = Null THEN [status |-> 404]
     ELSE [status |-> 200, body |-> entry.zipBuffer]

\* a file is missing: 400, nothing else happens
Upload400(r) ==
  /\ pc[r] = "idle"
  /\ input[r].clients = None \/ input[r].transactions = None
  /\ resp' = [resp EXCEPT ![r] = [status |-> 400]]
  /\ pc' = [pc EXCEPT ![r] = "done"]
  /\ UNCHANGED <<host, signKey, now, input, norm, scores, cases, files, manifest,
                 store, timers, unit>>

\* csvParse throws: caught, 500
Upload500(r) ==
  /\ pc[r] = "idle"
  /\ input[r].clients # None /\ input[r].transactions # None
  /\ ~parses(input[r].clients) \/ ~parses(input[r].transactions)
  /\ resp' = [resp EXCEPT ![r] = [status |-> 500]]
  /\ pc' = [pc EXCEPT ![r] = "done"]
  /\ UNCHANGED <<host, signKey, now, input, norm, scores, cases, files, manifest,
                 store, timers, unit>>

\* a slip: the transactions to score are kept in a module-level list that is
\* never reset, so a request also scores what other requests left there
UploadStart_sharedList(r) ==
  /\ pc[r] = "idle"
  /\ input[r].clients # None /\ input[r].transactions # None
  /\ parses(input[r].clients) /\ parses(input[r].transactions)
  /\ \E nc \in {normalizeClients(input[r].clients.rows)},
        nt \in {normalizeTransactions(input[r].transactions.rows, now)} :
        LET others == {q \in Req : q # r /\ norm[q] # None}
            left == IF others = {} THEN <<>> ELSE norm[CHOOSE q \in others : TRUE].txs
        IN /\ norm' = [norm EXCEPT ![r] =
                         [clients |-> nc.clients, clientHeaderMap |-> nc.clientHeaderMap,
                          txs |-> nt.txs, txHeaderMap |-> nt.txHeaderMap,
                          rejects |-> nt.rejects, lookback |-> nt.lookback]]
           /\ scores' = [scores EXCEPT ![r] =
                           scoreAll(nc.clients, left \o nt.txs, nt.lookback, Undefined, <<>>)]
  /\ pc' = [pc EXCEPT ![r] = "awaitScore"]
  /\ UNCHANGED <<host, signKey, now, input, cases, files, manifest, resp,
                 store, timers, unit>>

\* lines 153-163: parse, normalize and score, up to `await scoreAll(...)`;
\* cfg has no OPENAI_API_KEY, so the key passed at line 163 is undefined
UploadStart(r) ==
  /\ pc[r] = "idle"
  /\ input[r].clients # None /\ input[r].transactions # None
  /\ parses(input[r].clients) /\ parses(input[r].transactions)
  /\ \E nc \in {normalizeClients(input[r].clients.rows)},
        nt \in {normalizeTransactions(input[r].transactions.rows, now)} :
        /\ norm' = [norm EXCEPT ![r] =
                      [clients |-> nc.clients, clientHeaderMap |-> nc.clientHeaderMap,
                       txs |-> nt.txs, txHeaderMap |-> nt.txHeaderMap,
                       rejects |-> nt.rejects, lookback |-> nt.lookback]]
        /\ scores' = [scores EXCEPT ![r] = scoreAll(nc.clients, nt.txs, nt.lookback, Undefined, <<>>)]
  /\ pc' = [pc EXCEPT ![r] = "awaitScore"]
  /\ UNCHANGED <<host, signKey, now, input, cases, files, manifest, resp,
                 store, timers, unit>>

\* a slip: the entry is stored as soon as the manifest is built, before the
\* archive exists
UploadBuild_putsEarly(r) ==
  /\ pc[r] = "awaitScore"
  /\ \E cs \in {buildCases(norm[r].txs, norm[r].lookback)}, token \in Tokens :
     LET fs == <<[name |-> "clients.json", buf |-> jsonClients(norm[r].clients)],
                 [name |-> "transactions.json", buf |-> jsonTxs(norm[r].txs)],
                 [name |-> "cases.json", buf |-> jsonCases(cs)],
                 [name |-> "program.html",
                  buf |-> programHtml(now, norm[r].clientHeaderMap,
                                      norm[r].txHeaderMap, norm[r].rejects)]>>
         m == buildManifest(fs, rulesMeta, now, signKey)
     IN /\ cases' = [cases EXCEPT ![r] = cs]
        /\ files' = [files EXCEPT ![r] = fs]
        /\ manifest' = [manifest EXCEPT ![r] = m]
        /\ store' = putEntry(token, Null, m, VERIFY_TTL_MIN)
  /\ pc' = [pc EXCEPT ![r] = "awaitZip"]
  /\ UNCHANGED <<host, signKey, now, input, norm, scores, resp, timers, unit>>

\* lines 164-184: cases, files, manifest, up to `await zipNamedBuffers(...)`
UploadBuild(r) ==
  /\ pc[r] = "awaitScore"
  /\ \E cs \in {buildCases(norm[r].txs, norm[r].lookback)} :
     LET fs == <<[name |-> "clients.json", buf |-> jsonClients(norm[r].clients)],
                 [name |-> "transactions.json", buf |-> jsonTxs(norm[r].txs)],
                 [name |-> "cases.json", buf |-> jsonCases(cs)],
                 [name |-> "program.html",
                  buf |-> programHtml(now, norm[r].clientHeaderMap,
                                      norm[r].txHeaderMap, norm[r].rejects)]>>
     IN /\ cases' = [cases EXCEPT ![r] = cs]
        /\ files' = [files EXCEPT ![r] = fs]
        /\ manifest' = [manifest EXCEPT ![r] = buildManifest(fs, rulesMeta, now, signKey)]
  /\ pc' = [pc EXCEPT ![r] = "awaitZip"]
  /\ UNCHANGED <<host, signKey, now, input, norm, scores, resp, store, timers, unit>>

\* zipNamedBuffers rejects (archiver reports an error): caught, 500
UploadZipFails(r) ==
  /\ pc[r] = "awaitZip"
  /\ resp' = [resp EXCEPT ![r] = [status |-> 500]]
  /\ pc' = [pc EXCEPT ![r] = "done"]
  /\ UNCHANGED <<host, signKey, now, input, norm, scores, cases, files, manifest,
                 store, timers, unit>>

\* lines 186-194: token, store, response
UploadFinish(r) ==
  /\ pc[r] = "awaitZip"
  /\ \E token \in Tokens :
       LET zipBuffer == zipNamedBuffers(
                          Append(files[r], [name |-> "manifest.json", buf |-> <<manifest[r]>>]))
       IN /\ store' = putEntry(token, zipBuffer, manifest[r], VERIFY_TTL_MIN)
          /\ timers' = putTimer(token, VERIFY_TTL_MIN)
          /\ resp' = [resp EXCEPT ![r] =
                        [status |-> 200, ok |-> TRUE, risk |-> scores[r],
                         verify_url |-> token, download_url |-> token]]
  /\ pc' = [pc EXCEPT ![r] = "done"]
  /\ UNCHANGED <<host, signKey, now, input, norm, scores, cases, files, manifest, unit>>

\* the wall clock advances
Tick ==
  /\ now < StartOfClock + MaxClock
  /\ \E dt \in {5} : now' = now + dt
  /\ UNCHANGED <<host, signKey, input, pc, norm, scores, cases, files, manifest,
                 resp, store, timers, unit>>

(***************************************************************************)
(* Initial states                                                          *)
(***************************************************************************)
\* a host that never changes its clocks: the change lies after the calendar
NoDst == MonthStart(Len(MonthLen)) + MonthLen[Len(MonthLen)]

HostUTC == [base |-> 0, dstFrom |-> NoDst]
HostSydney == [base |-> 10, dstFrom |-> NoDst]
\* UTC-5, clocks go forward one hour on local day Day0 + 5
HostDst == [base |-> 0 - 5, dstFrom |-> Day0 + 5]

Idle ==
  /\ pc = [r \in Req |-> "idle"]
  /\ norm = [r \in Req |-> None]
  /\ scores = [r \in Req |-> None]
  /\ cases = [r \in Req |-> None]
  /\ files = [r \in Req |-> None]
  /\ manifest = [r \in Req |-> None]
  /\ resp = [r \in Req |-> None]
  /\ store = [t \in Tokens |-> None]
  /\ timers = {}
  /\ now = StartOfClock

Cell(k, v) == [k |-> k, v |-> v]

ClientRow(cid, pep, sanc, kyc, svc, res) ==
  <<Cell("CustomerID", Str(cid)), Cell("pep", pep), Cell("sanctions_flag", sanc),
    Cell("kyc_date", kyc), Cell("services", svc), Cell("Country", res)>>

TxRow(id, cid, date, amount, dir, method, ctry) ==
  <<Cell("tx_id", Str(id)), Cell("client_id", Str(cid)), Cell("Date", date),
    Cell("Amount", amount), Cell("direction", dir), Cell("method", method),
    Cell("country_to", ctry)>>

\* non-decreasing index sequences: one representative per multiset of rows
Ascending(ix) == \A i \in 1..(Len(ix) - 1) : ix[i] <= ix[i + 1]
UpTo(n, max) == UNION {[1..len -> 1..n] : len \in 0..max}
Pick(pool, ix) == [i \in 1..Len(ix) |-> pool[ix[i]]]

(***************************************************************************)
(* SpecScore: one upload, one client, transactions that trigger the rules  *)
(***************************************************************************)
MaxScoreTx == 5

ScoreClients == {
  ClientRow("c1", Str("no"), Str(""), Str(""), Str(""), Str("AU")),
  ClientRow("c1", Str("Yes"), Str("1"), Str(""), Str(""), Str("AU")),
  ClientRow("c1", Str(""), Str(""), Iso(Day0 - 400), Str(""), Str("AU")),
  ClientRow("c1", Str(""), Str(""), Iso(Day0 - 100), Str("Remittance"), Str("nz")),
  ClientRow("c1", Str(""), Str("TRUE"), Iso(Day0 - 400), Str("property law"), Str(" ru")),
  ClientRow("c1", Str("0"), Str(""), Str("garbage"), Str(""), Str("")) }

ScorePool == <<
  TxRow("q", "c1", Iso(Day0), NumStr(9700, ""), Str("in"), Str("Cash"), Str("")),
  TxRow("l", "c1", Iso(Day0), NumStr(100000, "$,"), Str("OUT"), Str("bank transfer"), Str("AU")),
  TxRow("r25", "c1", Iso(Day0), NumStr(25000, ""), Str("out"), Str("swift wire"), Str("ru")),
  TxRow("r1", "c1", Iso(Day0), NumStr(1000, ""), Str("out"), Str("swift wire"), Str("RU")),
  TxRow("r5", "c1", Iso(Day0), NumStr(5000, ""), Str("out"), Str("swift wire"), Str("RU")),
  TxRow("c20", "c1", Iso(Day0 + 1), NumStr(20000, ""), Str("out"), Str("swift wire"), Str("cn")),
  TxRow("x", "c2", Iso(Day0 + 1), NumStr(25000, ""), Str("out"), Str("swift wire"), Str("RU")),
  TxRow("old", "c1", Iso(Day0 - 600), NumStr(25000, ""), Str("out"), Str("swift wire"), Str("RU")) >>

InitScore ==
  /\ Idle
  /\ host = HostUTC
  /\ signKey = NoKey
  /\ unit = None
  /\ \E c \in ScoreClients :
     \E ix \in UpTo(Len(ScorePool), MaxScoreTx) :
       /\ Ascending(ix)
       /\ input = [r \in Req |->
                     IF r = 1 THEN [clients |-> Csv(<<c>>),
                                    transactions |-> Csv(Pick(ScorePool, ix))]
                     ELSE NoInput]

NextScore == UploadStart(1) \/ UploadBuild(1) \/ UploadFinish(1)

SpecScore == InitScore /\ [][NextScore]_vars

(***************************************************************************)
(* Properties of the score records                                         *)
(***************************************************************************)
\* the request has passed `await scoreAll(...)`: norm[r] and scores[r] are set
Scored(r) ==
  \/ pc[r] \in {"awaitScore", "awaitZip"}
  \/ pc[r] = "done" /\ resp[r].status = 200

\* sum of the points of the scoring reasons of one family
RECURSIVE SumPoints(_, _)
SumPoints(reasons, family) ==
  IF reasons = <<>> THEN 0
  ELSE (IF Head(reasons).type = "reason" /\ Head(reasons).family = family
        THEN Head(reasons).points ELSE 0) + SumPoints(Tail(reasons), family)

CappedSum(rec) ==
  Min(SumPoints(rec.reasons, "profile"), 20)
  + Min(SumPoints(rec.reasons, "behavior"), 25)
  + Min(SumPoints(rec.reasons, "corridor"), 20)

\* C1: every score record's score is min(P,20) + min(B,25) + min(C,20) for
\* the sums P, B, C of its reasons' points per family, and lies in 0..65
C1_ScoreIsCappedSum ==
  \A r \in Req : Scored(r) =>
    \A i \in 1..Len(scores[r]) :
      /\ scores[r][i].score = CappedSum(scores[r][i])
      /\ scores[r][i].score >= 0
      /\ scores[r][i].score <= 65

\* a client whose profile and behavior families both exceed their caps
C1_Witness ==
  /\ Scored(1)
  /\ \E i \in 1..Len(scores[1]) :
       /\ SumPoints(scores[1][i].reasons, "profile") > 20
       /\ SumPoints(scores[1][i].reasons, "behavior") > 25
       /\ scores[1][i].score = 45

\* the accepted, in-window corridor transfers of a client: indexes into txs
CorridorIdx(r, cid) ==
  {j \in 1..Len(norm[r].txs) :
     LET t == norm[r].txs[j]
     IN /\ t.client_id = cid
        /\ inWindow(t, norm[r].lookback)
        /\ t.direction = Str("out")
        /\ t.counterparty_country \in {Str("RU"), Str("CN"), Str("HK"), Str("AE"), Str("IN"), Str("IR")}}

HasReason(rec, ruleName) ==
  \E k \in 1..Len(rec.reasons) :
    rec.reasons[k].type = "reason" /\ rec.reasons[k].text.rule = ruleName

InputTxIds(r) ==
  [j \in 1..Len(input[r].transactions.rows) |-> Get(input[r].transactions.rows[j], "tx_id").str]

\* C6: the corridor family gets +20 exactly when the client has at least two
\* in-window outbound transfers to corridor countries (all corridor countries
\* counted together), one of them >= 20000; 5000 and 5000 do not trigger
C6_CorridorGate ==
  \A r \in Req : Scored(r) =>
    /\ \A i \in 1..Len(scores[r]) :
         LET rec == scores[r][i]
             idx == CorridorIdx(r, rec.client_id)
             due == Cardinality(idx) >= 2 /\ \E j \in idx : norm[r].txs[j].amount.num >= 20000
         IN /\ HasReason(rec, "High-risk corridor") <=> due
            /\ SumPoints(rec.reasons, "corridor") = (IF due THEN 20 ELSE 0)
    /\ InputTxIds(r) = <<"r5", "r5">> => ~HasReason(scores[r][1], "High-risk corridor")

\* 25000 and 1000 to RU trigger the rule
C6_Witness ==
  /\ Scored(1)
  /\ InputTxIds(1) = <<"r25", "r1">>
  /\ HasReason(scores[1][1], "High-risk corridor")

(***************************************************************************)
(* SpecBand: one upload of four clients, each with a profile and a set of  *)
(* transactions of its own                                                 *)
(***************************************************************************)
BandIds == <<"c1", "c2", "c3", "c4">>

\* a profile worth 0, 14 (services 8 + non-resident 6) or 10 (stale KYC)
BandProfile(cid, p) ==
  CASE p = 1 -> ClientRow(cid, Str(""), Str(""), Str(""), Str(""), Str("AU"))
    [] p = 2 -> ClientRow(cid, Str(""), Str(""), Str(""), Str("Real Estate"), Str("nz"))
    [] p = 3 -> ClientRow(cid, Str("no"), Str("0"), Iso(Day0 - 400), Str(""), Str("au"))

\* transactions worth 0, 15 (large domestic) or 20 (corridor)
BandKit(cid, k) ==
  CASE k = 1 -> <<>>
    [] k = 2 -> <<TxRow("l", cid, Iso(Day0), NumStr(100000, ""), Str("debit"), Str("eft"), Str(""))>>
    [] k = 3 -> <<TxRow("a", cid, Iso(Day0), NumStr(20000, ""), Str("out"), Str("wire"), Str("ae")),
                  TxRow("b", cid, Iso(Day0 - 1), NumStr(10, ""), Str("send"), Str("wire"), Str("HK"))>>

InitBand ==
  /\ Idle
  /\ host = HostUTC
  /\ signKey = NoKey
  /\ unit = None
  /\ \E ps \in [1..Len(BandIds) -> 1..3], ks \in [1..Len(BandIds) -> 1..3] :
       \* one representative per multiset of (profile, kit) pairs
       /\ \A i \in 1..(Len(BandIds) - 1) : 3 * ps[i] + ks[i] <= 3 * ps[i + 1] + ks[i + 1]
       /\ input = [r \in Req |->
                     IF r = 1
                     THEN [clients |-> Csv([i \in 1..Len(BandIds) |-> BandProfile(BandIds[i], ps[i])]),
                           transactions |-> Csv(Concat([i \in 1..Len(BandIds) |-> BandKit(BandIds[i], ks[i])]))]
                     ELSE NoInput]

NextBand == UploadStart(1) \/ UploadBuild(1) \/ UploadFinish(1)

SpecBand == InitBand /\ [][NextBand]_vars

\* C2: in every score record band is High exactly when score >= 30, Medium
\* exactly when 15 <= score <= 29 and Low exactly when score <= 14, so that
\* the boundary values 15 and 30 belong to the higher band
C2_BandBoundaries ==
  \A r \in Req : Scored(r) =>
    \A i \in 1..Len(scores[r]) :
      LET rec == scores[r][i]
      IN /\ rec.band \in {"High", "Medium", "Low"}
         /\ rec.band = "High" <=> rec.score >= 30
         /\ rec.band = "Medium" <=> (15 <= rec.score /\ rec.score <= 29)
         /\ rec.band = "Low" <=> rec.score <= 14

HasScore(r, score, band) ==
  \E i \in 1..Len(scores[r]) : scores[r][i].score = score /\ scores[r][i].band = band

\* one upload whose four clients score 14, 15, 29 and 30
C2_Witness ==
  /\ Scored(1)
  /\ HasScore(1, 14, "Low")
  /\ HasScore(1, 15, "Medium")
  /\ HasScore(1, 29, "Medium")
  /\ HasScore(1, 30, "High")

(***************************************************************************)
(* SpecReject: one upload whose transaction rows have good, empty,         *)
(* non-numeric or absent amounts                                           *)
(***************************************************************************)
MaxRejectTx == 3

\* outbound wires of client c1 to RU that differ in the amount cell
RejectPool == <<
  TxRow("g25", "c1", Iso(Day0), NumStr(25000, "$,"), Str("out"), Str("wire"), Str("RU")),
  TxRow("g1", "c1", Iso(Day0), NumStr(1000, ""), Str("out"), Str("wire"), Str("RU")),
  TxRow("empty", "c1", Iso(Day0), Str(""), Str("out"), Str("wire"), Str("RU")),
  TxRow("abc", "c1", Iso(Day0), Str("abc"), Str("out"), Str("wire"), Str("RU")),
  TxRow("na", "c1", Iso(Day0), Str("n/a"), Str("out"), Str("wire"), Str("RU")),
  TxRow("dash", "c1", Iso(Day0), Str("-"), Str("out"), Str("wire"), Str("RU")) >>

\* the same row in a file that has no Amount column
DropCell(row, key) == SelectSeq(row, LAMBDA c : c.k # key)

StrictlyAscending(ix) == \A i \in 1..(Len(ix) - 1) : ix[i] < ix[i + 1]

InitReject ==
  /\ Idle
  /\ host = HostUTC
  /\ signKey = NoKey
  /\ unit = None
  /\ \E ix \in UpTo(Len(RejectPool), MaxRejectTx), hasAmountColumn \in BOOLEAN :
       /\ StrictlyAscending(ix)
       /\ input = [r \in Req |->
                     IF r = 1
                     THEN [clients |-> Csv(<<ClientRow("c1", Str(""), Str(""), Str(""), Str(""), Str("AU"))>>),
                           transactions |->
                             Csv([i \in 1..Len(ix) |->
                                    IF hasAmountColumn THEN RejectPool[ix[i]]
                                    ELSE DropCell(RejectPool[ix[i]], "Amount")])]
                     ELSE NoInput]

NextReject == UploadStart(1) \/ UploadBuild(1) \/ UploadFinish(1)

SpecReject == InitReject /\ [][NextReject]_vars

\* the amount field is absent, an empty string, or a string without numeric
\* content
MissingAmount(row) ==
  \/ ~Has(row, "Amount")
  \/ Get(row, "Amount") \in {Str(""), Str("abc"), Str("n/a")}

TxIdOf(row) == Get(row, "tx_id")

\* the request has passed buildCases: cases[r] is set
Built(r) == pc[r] = "awaitZip" \/ (pc[r] = "done" /\ resp[r].status = 200)

\* C3: every input row that is missing its amount is excluded from txs and
\* is in rejects with its index, the reason 'Missing client_id/date/amount'
\* and the row itself; it contributes to no score and is in no case's samples
C3_MissingAmountRejected ==
  \A r \in Req : Scored(r) =>
    LET rows == input[r].transactions.rows
        missing == {j \in 1..Len(rows) : MissingAmount(rows[j])}
        kept == SelectSeq(norm[r].txs,
                          LAMBDA t : \A j \in missing : t.tx_id # TxIdOf(rows[j]))
    IN /\ \A j \in missing :
            /\ \A k \in 1..Len(norm[r].txs) : norm[r].txs[k].tx_id # TxIdOf(rows[j])
            /\ \E k \in 1..Len(norm[r].rejects) :
                 norm[r].rejects[k] =
                   [index |-> j - 1, reason |-> "Missing client_id/date/amount", row |-> rows[j]]
            /\ Built(r) =>
                 \A k \in 1..Len(cases[r]) : \A s \in 1..Len(cases[r][k].samples) :
                   cases[r][k].samples[s].tx_id # TxIdOf(rows[j])
       /\ scores[r] = scoreAll(norm[r].clients, kept, norm[r].lookback, Undefined, <<>>)

\* a row with an empty amount cell was accepted with amount 0 and is the
\* second corridor transfer that makes the corridor rule fire
C3_EmptyAmountScored ==
  /\ Built(1)
  /\ InputTxIds(1) = <<"g25", "empty">>
  /\ \E k \in 1..Len(norm[1].txs) :
       norm[1].txs[k].tx_id = Str("empty") /\ norm[1].txs[k].amount = Num(0)
  /\ HasReason(scores[1][1], "High-risk corridor")
  /\ \E k \in 1..Len(cases[1]) : \E s \in 1..Len(cases[1][k].samples) :
       cases[1][k].samples[s].tx_id = Str("empty")

(***************************************************************************)
(* SpecStruct: one upload of cash deposits around the structuring window,  *)
(* on hosts with and without a change of clocks                            *)
(***************************************************************************)
MaxStructTx == 5

CashIn(id, day, amount) ==
  TxRow(id, "c1", Iso(day), NumStr(amount, ""), Str("Credit"), Str("cash deposit"), Str(""))

StructPool == <<
  CashIn("d0", Day0, 9600),
  CashIn("d1", Day0 + 1, 9999),
  CashIn("d2", Day0 + 2, 9700),
  CashIn("d6", Day0 + 6, 9700),
  CashIn("d7", Day0 + 7, 9700),
  CashIn("low", Day0 + 3, 9599),
  CashIn("high", Day0 + 3, 10000),
  TxRow("wire", "c1", Iso(Day0 + 3), NumStr(9700, ""), Str("in"), Str("wire"), Str("")),
  TxRow("out", "c1", Iso(Day0 + 3), NumStr(9700, ""), Str("out"), Str("cash"), Str("")) >>

InitStruct ==
  /\ Idle
  /\ host \in {HostUTC, HostSydney, HostDst}
  /\ signKey = NoKey
  /\ unit = None
  /\ \E ix \in UpTo(Len(StructPool), MaxStructTx) :
       /\ Ascending(ix)
       /\ input = [r \in Req |->
                     IF r = 1
                     THEN [clients |-> Csv(<<ClientRow("c1", Str(""), Str(""), Str(""), Str(""), Str("AU"))>>),
                           transactions |-> Csv(Pick(StructPool, ix))]
                     ELSE NoInput]

NextStruct == UploadStart(1) \/ UploadBuild(1) \/ UploadFinish(1)

SpecStruct == InitStruct /\ [][NextStruct]_vars

\* the accepted, in-window cash deposits of 9600..9999 of a client: indexes
\* into txs
QualifyingIdx(r, cid) ==
  {j \in 1..Len(norm[r].txs) :
     LET t == norm[r].txs[j]
     IN /\ t.client_id = cid
        /\ inWindow(t, norm[r].lookback)
        /\ t.method = Str("cash") /\ t.direction = Str("in")
        /\ t.amount.num >= 9600 /\ t.amount.num <= 9999}

FourOf(idx) == {S \in SUBSET idx : Cardinality(S) = 4}

\* latest date minus earliest date of a set of transactions, in calendar days
SpanInDays(r, S) ==
  LET days == {norm[r].txs[j].date.iso : j \in S}
  IN (CHOOSE d \in days : \A e \in days : e <= d)
     - (CHOOSE d \in days : \A e \in days : d <= e)

\* the host's clocks go forward between the earliest and the latest date
ClocksForwardWithin(r, S) ==
  LET days == {norm[r].txs[j].date.iso : j \in S}
  IN /\ \E d \in days : d < host.dstFrom
     /\ \E d \in days : host.dstFrom <= d

\* C4 as stated: the structuring rule adds +25 to the behavior family exactly
\* when the client has at least 4 in-window cash deposits of 9600..9999 of
\* which some 4 span at most 7 days, a span of exactly 7 days included
C4_StructuringWithin7Days ==
  \A r \in Req : Scored(r) =>
    \A i \in 1..Len(scores[r]) :
      LET rec == scores[r][i]
          due == \E S \in FourOf(QualifyingIdx(r, rec.client_id)) : SpanInDays(r, S) <= 7
      IN /\ HasReason(rec, "Structuring") <=> due
         /\ SumPoints(rec.reasons, "behavior") = (IF due THEN 25 ELSE 0)

\* C4 amended: the structuring rule adds +25 to the behavior family exactly
\* when the client has at least 4 in-window cash deposits of 9600..9999 of
\* which some 4 have dates whose local midnights are less than 7 * 24 hours
\* apart: a span of at most 6 calendar days, or of exactly 7 calendar days
\* when the host's clocks go forward within the span; otherwise nothing
C4_StructuringUnder7Days ==
  \A r \in Req : Scored(r) =>
    \A i \in 1..Len(scores[r]) :
      LET rec == scores[r][i]
          due == \E S \in FourOf(QualifyingIdx(r, rec.client_id)) :
                   \/ SpanInDays(r, S) <= 6
                   \/ SpanInDays(r, S) = 7 /\ ClocksForwardWithin(r, S)
      IN /\ HasReason(rec, "Structuring") <=> due
         /\ SumPoints(rec.reasons, "behavior") = (IF due THEN 25 ELSE 0)

\* four deposits on days 0, 1, 2 and 7 on a host without a change of clocks:
\* a span of exactly 7 days, and the rule does not fire
C4_Witness ==
  /\ Scored(1)
  /\ host = HostUTC
  /\ InputTxIds(1) = <<"d0", "d1", "d2", "d7">>
  /\ Cardinality(QualifyingIdx(1, Str("c1"))) = 4
  /\ ~HasReason(scores[1][1], "Structuring")

(***************************************************************************)
(* SpecWindow: direct calls of hasNInWindow(txList, 4, 7)                  *)
(***************************************************************************)
MaxTxList == 5

\* the dates the lists are drawn from: days 0, 1, 2, 6, 8, 10, 11, 12, 13
\* after Day0, and a date that does not parse
WindowDates == <<Iso(Day0), Iso(Day0 + 1), Iso(Day0 + 2), Iso(Day0 + 6), Iso(Day0 + 8),
                 Iso(Day0 + 10), Iso(Day0 + 11), Iso(Day0 + 12), Iso(Day0 + 13),
                 Str("garbage")>>

Reverse(s) == [i \in 1..Len(s) |-> s[Len(s) + 1 - i]]
\* the elements at even positions, then those at odd positions
EvenFirst(s) ==
  SelectSeq([i \in 1..Len(s) |-> IF i % 2 = 0 THEN <<s[i]>> ELSE <<>>], LAMBDA x : x # <<>>)
  \o SelectSeq([i \in 1..Len(s) |-> IF i % 2 = 1 THEN <<s[i]>> ELSE <<>>], LAMBDA x : x # <<>>)
Unwrap(s) == [i \in 1..Len(s) |-> s[i][1]]
\* the last two elements first
Rotate(s) ==
  IF Len(s) < 2 THEN s ELSE SubSeq(s, Len(s) - 1, Len(s)) \o SubSeq(s, 1, Len(s) - 2)

Arrange(s, order) ==
  CASE order = "ascending" -> s
    [] order = "descending" -> Reverse(s)
    [] order = "rotated" -> Rotate(s)
    [] order = "interleaved" -> Unwrap(EvenFirst(s))

InitWindow ==
  /\ Idle
  /\ host \in {HostUTC, HostDst}
  /\ signKey = NoKey
  /\ input = [r \in Req |-> NoInput]
  /\ \E ix \in UpTo(Len(WindowDates), MaxTxList),
        order \in {"ascending", "descending", "rotated", "interleaved"} :
       /\ Ascending(ix)
       /\ unit = [fn |-> "hasNInWindow",
                  txList |-> Arrange([i \in 1..Len(ix) |-> [date |-> WindowDates[ix[i]]]], order),
                  returned |-> FALSE, out |-> FALSE]

\* hasNInWindow(txList, 4, 7) is called and returns
CallHasNInWindow ==
  /\ unit.fn = "hasNInWindow" /\ ~unit.returned
  /\ unit' = [unit EXCEPT !.returned = TRUE, !.out = hasNInWindow(unit.txList, 4, 7)]
  /\ UNCHANGED <<host, signKey, now, input, pc, norm, scores, cases, files,
                 manifest, resp, store, timers>>

NextWindow == CallHasNInWindow

SpecWindow == InitWindow /\ [][NextWindow]_vars

\* day offsets, from Day0, of the dates of a list that parse
OffsetsOf(txList) ==
  [i \in 1..Len(txList) |-> IF IsIso(txList[i].date) THEN txList[i].date.iso - Day0 ELSE 0 - 1]

\* the list has exactly these day offsets, in any order
HasOffsets(txList, offsets) ==
  /\ Len(txList) = Len(offsets)
  /\ \A d \in 0..13 :
       Cardinality({i \in 1..Len(txList) : OffsetsOf(txList)[i] = d})
         = Cardinality({i \in 1..Len(offsets) : offsets[i] = d})
  /\ \A i \in 1..Len(txList) : OffsetsOf(txList)[i] >= 0

\* four of the transactions whose dates fit the window of 7 days: the
\* latest is less than 7 * 24 hours after the earliest
FourFit(txList) ==
  \E S \in FourOf({i \in 1..Len(txList) : IsIso(txList[i].date)}) :
    \A i \in S : \A j \in S :
      LocalMidnight(txList[j].date.iso) - LocalMidnight(txList[i].date.iso) < 7 * DaySecs

\* C5: hasNInWindow(txList, 4, 7) is true exactly when some 4 of the
\* transactions have dates that fit the window, whatever group of 4 of the
\* sorted sequence they are and whatever the order of txList: true for days
\* 0,1,2,6,10 and for days 0,10,11,12,13, false for days 0,1,2,8,10
C5_SlidingWindows ==
  (unit.fn = "hasNInWindow" /\ unit.returned) =>
    /\ unit.out <=> FourFit(unit.txList)
    /\ HasOffsets(unit.txList, <<0, 1, 2, 6, 10>>) => unit.out
    /\ HasOffsets(unit.txList, <<0, 1, 2, 8, 10>>) => ~unit.out
    /\ HasOffsets(unit.txList, <<0, 10, 11, 12, 13>>) => unit.out

\* only the last group of 4 of the sorted dates fits, and the list is not
\* given in date order
C5_Witness ==
  /\ unit.fn = "hasNInWindow" /\ unit.returned
  /\ HasOffsets(unit.txList, <<0, 10, 11, 12, 13>>)
  /\ OffsetsOf(unit.txList) # <<0, 10, 11, 12, 13>>
  /\ unit.out

(***************************************************************************)
(* SpecDeterminism: the same two files uploaded twice, the requests        *)
(* interleaved with each other and with the passing of time                *)
(***************************************************************************)
\* a client whose KYC review is 359 days before 2025-10-16
KycEdgeClient ==
  ClientRow("c1", Str(""), Str(""), Iso(Day0 + 1 - 359), Str(""), Str("AU"))

DeterminismInputs == {
  \* no valid row: the only row has no date
  [clients |-> Csv(<<KycEdgeClient>>),
   transactions |-> Csv(<<TxRow("t1", "c1", Str("garbage"), NumStr(9700, ""), Str("in"), Str("cash"), Str(""))>>)],
  \* no row at all
  [clients |-> Csv(<<KycEdgeClient>>), transactions |-> Csv(<<>>)],
  \* valid rows: a corridor case
  [clients |-> Csv(<<KycEdgeClient>>),
   transactions |-> Csv(<<TxRow("t1", "c1", Iso(Day0), NumStr(25000, ""), Str("out"), Str("wire"), Str("RU")),
                          TxRow("t2", "c1", Iso(Day0 - 1), NumStr(1000, ""), Str("out"), Str("wire"), Str("CN"))>>)],
  \* valid rows and a reject
  [clients |-> Csv(<<ClientRow("c1", Str("Y"), Str(""), Str(""), Str(""), Str("AU"))>>),
   transactions |-> Csv(<<TxRow("t1", "c1", Iso(Day0), NumStr(100000, ""), Str("out"), Str("eft"), Str("AU")),
                          TxRow("t2", "", Iso(Day0), NumStr(5, ""), Str("out"), Str("eft"), Str("AU"))>>)] }

InitDeterminism ==
  /\ Idle
  /\ host = HostUTC
  /\ signKey \in {NoKey, GoodKey}
  /\ unit = None
  /\ \E in \in DeterminismInputs : input = [r \in Req |-> in]

NextDeterminism ==
  \/ \E r \in Req : UploadStart(r)
  \/ \E r \in Req : UploadBuild(r)
  \/ \E r \in Req : UploadFinish(r)
  \/ Tick

SpecDeterminism == InitDeterminism /\ [][NextDeterminism]_vars

\* the request was answered with the evidence pack
Done200(r) == pc[r] = "done" /\ resp[r].status = 200

\* C7: two runs of the upload pipeline on the same input, at whatever clock
\* times, produce identical scores, identical cases and identical
\* {name, bytes, sha256} entries for every file of the manifest, also when
\* the transaction list has no valid row
C7_Deterministic ==
  \A r1 \in Req : \A r2 \in Req :
    (Done200(r1) /\ Done200(r2) /\ input[r1] = input[r2]) =>
      /\ scores[r1] = scores[r2]
      /\ cases[r1] = cases[r2]
      /\ manifest[r1].files = manifest[r2].files

\* the same files, without a valid transaction row, uploaded before and
\* after the UTC date changes: the client's scores differ
C7_ScoresDiffer ==
  /\ Done200(1) /\ Done200(2)
  /\ input[1] = input[2]
  /\ norm[1].txs = <<>>
  /\ scores[1][1].score = 0
  /\ scores[2][1].score = 10

\* the same files, with valid rows only, uploaded five seconds apart: the
\* entries of program.html differ, those of the other files do not
C7_ProgramHtmlDiffers ==
  /\ Done200(1) /\ Done200(2)
  /\ input[1] = input[2]
  /\ norm[1].rejects = <<>> /\ Len(norm[1].txs) = 2
  /\ scores[1] = scores[2] /\ cases[1] = cases[2]
  /\ \A i \in 1..3 : manifest[1].files[i] = manifest[2].files[i]
  /\ manifest[1].files[4].name = "program.html"
  /\ manifest[1].files[4].sha256 # manifest[2].files[4].sha256

(***************************************************************************)
(* SpecManifest: direct calls of buildManifest on named buffers of bytes,  *)
(* with and without a signing key, before and after one file is changed    *)
(***************************************************************************)
MaxBufLen == 2

Bytes == {0, 1}
Buffers == UNION {[1..len -> Bytes] : len \in 0..MaxBufLen}

InitManifest ==
  /\ Idle
  /\ host = HostUTC
  /\ signKey \in {NoKey, GoodKey, ShortKey}
  /\ input = [r \in Req |-> NoInput]
  /\ \E b1 \in Buffers, b2 \in Buffers :
       unit = [fn |-> "buildManifest",
               namedFiles |-> <<[name |-> "clients.json", buf |-> b1],
                                [name |-> "transactions.json", buf |-> b2],
                                [name |-> "cases.json", buf |-> <<1, 0>>]>>,
               first |-> None, second |-> None]

\* buildManifest(namedFiles, rulesMeta) is called and returns
CallBuildManifest ==
  /\ unit.fn = "buildManifest" /\ unit.second = None
  /\ LET call == [namedFiles |-> unit.namedFiles, at |-> now,
                  manifest |-> buildManifest(unit.namedFiles, rulesMeta, now, signKey)]
     IN unit' = IF unit.first = None THEN [unit EXCEPT !.first = call]
                ELSE [unit EXCEPT !.second = call]
  /\ UNCHANGED <<host, signKey, now, input, pc, norm, scores, cases, files,
                 manifest, resp, store, timers>>

\* between the two calls the content of one named file is replaced
ChangeOneFile ==
  /\ unit.fn = "buildManifest" /\ unit.first # None /\ unit.second = None
  /\ unit.namedFiles = unit.first.namedFiles
  /\ \E i \in 1..Len(unit.namedFiles), b \in Buffers :
       /\ b # unit.namedFiles[i].buf
       /\ unit' = [unit EXCEPT !.namedFiles[i].buf = b]
  /\ UNCHANGED <<host, signKey, now, input, pc, norm, scores, cases, files,
                 manifest, resp, store, timers>>

NextManifest == CallBuildManifest \/ ChangeOneFile \/ Tick

SpecManifest == InitManifest /\ [][NextManifest]_vars

\* the calls of buildManifest that have returned
ManifestCalls ==
  IF unit.fn # "buildManifest" THEN {}
  ELSE (IF unit.first = None THEN {} ELSE {unit.first})
       \cup (IF unit.second = None THEN {} ELSE {unit.second})

\* the files whose content differs between the two calls
ChangedFiles ==
  {i \in 1..Len(unit.first.namedFiles) :
     unit.first.namedFiles[i].buf # unit.second.namedFiles[i].buf}

\* C8: every entry of manifest.files has the name, the length and the hash
\* of the content given under that name; and when the content of exactly one
\* file is changed between two calls only that file's entry changes
C8_ManifestHashIntegrity ==
  /\ \A c \in ManifestCalls :
       /\ "files" \in DOMAIN c.manifest
       /\ Len(c.manifest.files) = Len(c.namedFiles)
       /\ \A i \in 1..Len(c.namedFiles) :
            c.manifest.files[i] =
              [name |-> c.namedFiles[i].name, bytes |-> Len(c.namedFiles[i].buf),
               sha256 |-> sha256Hex(c.namedFiles[i].buf)]
  /\ (unit.fn = "buildManifest" /\ unit.second # None /\ Cardinality(ChangedFiles) = 1) =>
       \A i \in 1..Len(unit.first.namedFiles) :
         IF i \in ChangedFiles
         THEN /\ unit.first.manifest.files[i].sha256 # unit.second.manifest.files[i].sha256
              /\ unit.first.manifest.files[i].name = unit.second.manifest.files[i].name
         ELSE unit.first.manifest.files[i] = unit.second.manifest.files[i]

\* one byte of clients.json is flipped between the two calls
C8_Witness ==
  /\ unit.fn = "buildManifest" /\ unit.second # None
  /\ unit.first.namedFiles[1].buf = <<0, 1>>
  /\ unit.second.namedFiles[1].buf = <<1, 1>>
  /\ ChangedFiles = {1}
  /\ unit.first.manifest.files[1].bytes = unit.second.manifest.files[1].bytes
  /\ unit.first.manifest.files[1].sha256 # unit.second.manifest.files[1].sha256
  /\ unit.first.manifest.files[2] = unit.second.manifest.files[2]

ManifestFields == {"schema", "created_utc", "ruleset_id", "hash_algo", "files", "sources"}

\* C9: buildManifest returns a manifest whether or not signing is possible:
\* schema, created_utc, ruleset_id, hash_algo, files and sources are present
\* and the same as in the signed manifest, and the signing field is present
\* exactly when a key is configured and signing with it succeeds
C9_SigningNeverFails ==
  \A c \in ManifestCalls :
    LET signed == buildManifest(c.namedFiles, rulesMeta, c.at, GoodKey)
    IN /\ ManifestFields \subseteq DOMAIN c.manifest
       /\ \A f \in ManifestFields : c.manifest[f] = signed[f]
       /\ c.manifest.schema = "trancheready.manifest.v1"
       /\ c.manifest.created_utc = c.at
       /\ c.manifest.ruleset_id = "dnfbp-2025.11"
       /\ c.manifest.hash_algo = "sha256"
       /\ DOMAIN c.manifest \subseteq ManifestFields \cup {"app_version", "signing"}
       /\ "signing" \in DOMAIN c.manifest <=> (signKey.b64 # "" /\ signKey.bytes = 64)
       /\ "signing" \in DOMAIN signed

\* a key is configured that nacl rejects, and the manifest is returned unsigned
C9_Witness ==
  /\ signKey = ShortKey
  /\ unit.fn = "buildManifest" /\ unit.first # None
  /\ "files" \in DOMAIN unit.first.manifest
  /\ "signing" \notin DOMAIN unit.first.manifest

(***************************************************************************)
(* SpecHeaders: direct calls of normalizeClients and normalizeTransactions *)
(* on sheets whose columns are named in various ways                       *)
(***************************************************************************)
MaxCols == 3

\* column names as they are written in the uploaded sheets
HeaderPool == <<"CustomerID", " Client_ID ", "ID", "Country", "Channel", "Notes", "pep",
                "kyc_date", "AMT", "Amount", "Date", "country_to", "tx_id">>

\* two rows under the columns cols: the cell of row i, column j is named
\* after both
SheetRows(cols) ==
  <<[j \in 1..Len(cols) |-> Cell(cols[j], Str(<<"a1", "a2", "a3", "a4">>[j]))],
    [j \in 1..Len(cols) |-> Cell(cols[j], Str(<<"b1", "b2", "b3", "b4">>[j]))]>>

InitHeaders ==
  /\ Idle
  /\ host = HostUTC
  /\ signKey = NoKey
  /\ input = [r \in Req |-> NoInput]
  /\ \E ix \in UpTo(Len(HeaderPool), MaxCols), sheet \in {"clients", "transactions"},
        backwards \in BOOLEAN :
       /\ StrictlyAscending(ix)
       /\ unit = [fn |-> "normalize", sheet |-> sheet,
                  rows |-> SheetRows(IF backwards THEN Reverse(Pick(HeaderPool, ix))
                                     ELSE Pick(HeaderPool, ix)),
                  returned |-> FALSE, mapped |-> <<>>, headerMap |-> <<>>]

\* normalizeClients(rows) is called and returns
CallNormalizeClients ==
  /\ unit.fn = "normalize" /\ unit.sheet = "clients" /\ ~unit.returned
  /\ \E out \in {normalizeClients(unit.rows)} :
       unit' = [unit EXCEPT !.returned = TRUE, !.mapped = out.clients,
                            !.headerMap = out.clientHeaderMap]
  /\ UNCHANGED <<host, signKey, now, input, pc, norm, scores, cases, files,
                 manifest, resp, store, timers>>

\* normalizeTransactions(rows) is called and returns; mapped is what
\* mapHeaders(r, TX_MAP) gave for each row (line 85)
CallNormalizeTransactions ==
  /\ unit.fn = "normalize" /\ unit.sheet = "transactions" /\ ~unit.returned
  /\ \E out \in {normalizeTransactions(unit.rows, now)} :
       unit' = [unit EXCEPT !.returned = TRUE,
                            !.mapped = [i \in 1..Len(unit.rows) |-> mapHeaders(unit.rows[i], TX_MAP)],
                            !.headerMap = out.txHeaderMap]
  /\ UNCHANGED <<host, signKey, now, input, pc, norm, scores, cases, files,
                 manifest, resp, store, timers>>

NextHeaders == CallNormalizeClients \/ CallNormalizeTransactions

SpecHeaders == InitHeaders /\ [][NextHeaders]_vars

\* the column names of HeaderPool, trimmed and lower-cased
Normalized(name) ==
  CASE name = "CustomerID" -> "customerid"
    [] name = " Client_ID " -> "client_id"
    [] name = "ID" -> "id"
    [] name = "Country" -> "country"
    [] name = "Channel" -> "channel"
    [] name = "Notes" -> "notes"
    [] name = "AMT" -> "amt"
    [] name = "Amount" -> "amount"
    [] name = "Date" -> "date"
    [] OTHER -> name

\* each alias belongs to exactly one canonical field of the table
AliasesUnique(dict) ==
  \A i \in 1..Len(dict) : \A j \in 1..Len(dict) :
    /\ (dict[i].can = dict[j].can => i = j)
    /\ \A a \in 1..Len(dict[i].aliases) : SeqHas(dict[j].aliases, dict[i].aliases[a]) => i = j

\* the columns of a row whose names are aliases of the canonical field can
ColumnsOf(row, dict, can) ==
  {j \in 1..Len(row) :
     \E i \in 1..Len(dict) : dict[i].can = can /\ SeqHas(dict[i].aliases, Normalized(row[j].k))}

SheetResolved(dict) ==
  \A r \in 1..Len(unit.rows) : \A j \in 1..Len(unit.rows[r]) : \A i \in 1..Len(dict) :
    SeqHas(dict[i].aliases, Normalized(unit.rows[r][j].k)) =>
      /\ Get(unit.headerMap, unit.rows[r][j].k) = Str(dict[i].can)
      /\ Has(unit.mapped[r], dict[i].can)
      /\ \E c \in ColumnsOf(unit.rows[r], dict, dict[i].can) :
           Get(unit.mapped[r], dict[i].can) = unit.rows[r][c].v
      /\ ~Has(unit.mapped[r], unit.rows[r][j].k) \/ unit.rows[r][j].k = dict[i].can

\* C10: every column whose name, trimmed and lower-cased, is an alias of the
\* sheet's synonym table is filed under that alias's canonical field in the
\* normalized rows and in the header map ('CustomerID' under client_id), for
\* the client sheet and for the transaction sheet; and within a table each
\* alias belongs to exactly one canonical field
C10_HeaderSynonyms ==
  /\ AliasesUnique(CLIENT_MAP)
  /\ AliasesUnique(TX_MAP)
  /\ (unit.fn = "normalize" /\ unit.returned) =>
       /\ unit.sheet = "clients" => SheetResolved(CLIENT_MAP)
       /\ unit.sheet = "transactions" => SheetResolved(TX_MAP)
       /\ Has(unit.rows[1], "CustomerID") =>
            /\ Get(unit.headerMap, "CustomerID") = Str("client_id")
            /\ Has(unit.mapped[1], "client_id")

\* a client sheet whose only id column is named CustomerID
C10_Witness ==
  /\ unit.fn = "normalize" /\ unit.returned /\ unit.sheet = "clients"
  /\ Keys(unit.rows[1]) = <<"CustomerID", "Country", "Notes">>
  /\ Get(unit.headerMap, "CustomerID") = Str("client_id")
  /\ Keys(unit.mapped[2]) = <<"client_id", "residency_country", "notes">>
  /\ Get(unit.mapped[2], "client_id") = Str("b1")

\* the key a column is filed under: the canonical field its name is an alias
\* of, otherwise its trimmed, lower-cased name
ExpectedKey(dict, name) ==
  IF \E i \in 1..Len(dict) : SeqHas(dict[i].aliases, Normalized(name))
  THEN dict[CHOOSE i \in 1..Len(dict) : SeqHas(dict[i].aliases, Normalized(name))].can
  ELSE Normalized(name)

SheetDict == IF unit.sheet = "clients" THEN CLIENT_MAP ELSE TX_MAP

\* C11: header normalization never drops a column: the value of every column
\* of every input row is in the normalized row under the canonical name of
\* the column (or its trimmed, lower-cased name), also when two columns
\* resolve to the same name, and the header map names that key for every
\* original header
C11_NoColumnDropped ==
  (unit.fn = "normalize" /\ unit.returned) =>
    \A r \in 1..Len(unit.rows) : \A j \in 1..Len(unit.rows[r]) :
      LET col == unit.rows[r][j]
          key == ExpectedKey(SheetDict, col.k)
      IN /\ Get(unit.headerMap, col.k) = Str(key)
         /\ Has(unit.mapped[r], key)
         /\ Get(unit.mapped[r], key) = col.v

\* a client sheet with the columns CustomerID and Client_ID: both are filed
\* under client_id, and the value of the CustomerID column is gone
C11_ValueDropped ==
  /\ unit.fn = "normalize" /\ unit.returned /\ unit.sheet = "clients"
  /\ Keys(unit.rows[1]) = <<"CustomerID", " Client_ID ">>
  /\ Get(unit.headerMap, "CustomerID") = Str("client_id")
  /\ Get(unit.headerMap, " Client_ID ") = Str("client_id")
  /\ unit.mapped[1] = <<Cell("client_id", Str("a2"))>>

\* the scoring reason that belongs to a case type
ReasonOfCase(type) ==
  CASE type = "structuring" -> "Structuring"
    [] type = "corridor" -> "High-risk corridor"
    [] type = "large_domestic" -> "Large domestic transfer"

CaseTypes == {"structuring", "corridor", "large_domestic"}

\* the client ids that occur in the accepted transactions or the score records
ClientIdsOf(r) ==
  {norm[r].txs[j].client_id : j \in 1..Len(norm[r].txs)}
  \cup {scores[r][i].client_id : i \in 1..Len(scores[r])}

HasCase(r, cid, type) ==
  \E k \in 1..Len(cases[r]) : cases[r][k].client_id = cid /\ cases[r][k].type = type

HasScoredReason(r, cid, type) ==
  \E i \in 1..Len(scores[r]) :
    /\ scores[r][i].client_id = cid
    /\ HasReason(scores[r][i], ReasonOfCase(type))

\* C12: scorer and case builder agree: for every client_id and each of the
\* patterns structuring, corridor and large_domestic, buildCases emits a case
\* of that type for the client exactly when scoreAll's output has a score
\* record of that client carrying the scoring reason of the pattern
C12_ScorerCasesAgree ==
  \A r \in Req : Built(r) =>
    \A cid \in ClientIdsOf(r) : \A type \in CaseTypes :
      HasCase(r, cid, type) <=> HasScoredReason(r, cid, type)

\* two corridor transfers of a client id that is not in the client file: a
\* corridor case is emitted for c2, and there is no score record of c2
C12_CaseWithoutScore ==
  /\ Built(1)
  /\ InputTxIds(1) = <<"x", "x">>
  /\ HasCase(1, Str("c2"), "corridor")
  /\ \A i \in 1..Len(scores[1]) : scores[1][i].client_id # Str("c2")

(***************************************************************************)
(* SpecCases: one upload whose transactions are not in date order and      *)
(* match the patterns more than five times                                 *)
(***************************************************************************)
MaxCaseTx == 6

CasePool == <<
  CashIn("k0", Day0, 9700),
  CashIn("k1", Day0 + 1, 9800),
  CashIn("k2", Day0 + 2, 9900),
  TxRow("ru", "c1", Iso(Day0 + 1), NumStr(25000, ""), Str("out"), Str("wire"), Str("RU")),
  TxRow("cn", "c1", Iso(Day0), NumStr(1000, ""), Str("out"), Str("wire"), Str("CN")),
  TxRow("big", "c1", Iso(Day0 + 2), NumStr(150000, ""), Str("out"), Str("eft"), Str("AU")),
  TxRow("big2", "c2", Iso(Day0 + 2), NumStr(100000, ""), Str("out"), Str("eft"), Str("")) >>

InitCases ==
  /\ Idle
  /\ host = HostUTC
  /\ signKey = NoKey
  /\ unit = None
  /\ \E ix \in UpTo(Len(CasePool), MaxCaseTx), backwards \in BOOLEAN :
       /\ Ascending(ix)
       /\ input = [r \in Req |->
                     IF r = 1
                     THEN [clients |-> Csv(<<ClientRow("c1", Str(""), Str(""), Str(""), Str(""), Str("AU")),
                                             ClientRow("c2", Str(""), Str(""), Str(""), Str(""), Str("AU"))>>),
                           transactions |-> Csv(IF backwards THEN Reverse(Pick(CasePool, ix))
                                                ELSE Pick(CasePool, ix))]
                     ELSE NoInput]

NextCases == UploadStart(1) \/ UploadBuild(1) \/ UploadFinish(1)

SpecCases == InitCases /\ [][NextCases]_vars

\* the filter of a case type
Matches(t, type) ==
  CASE type = "structuring" ->
         /\ t.direction = Str("in") /\ t.method = Str("cash")
         /\ t.amount.num >= 9600 /\ t.amount.num <= 9999
    [] type = "corridor" ->
         /\ t.direction = Str("out")
         /\ t.counterparty_country \in {Str("RU"), Str("CN"), Str("HK"), Str("AE"), Str("IN"), Str("IR")}
    [] type = "large_domestic" ->
         /\ t.direction = Str("out") /\ t.amount.num >= 100000
         /\ t.counterparty_country \in {Null, Str("AU")}

\* the in-window transactions of a client that match a case type, in the
\* order of the transaction input
MatchingInOrder(r, cid, type) ==
  SelectSeq(norm[r].txs,
            LAMBDA t : t.client_id = cid /\ inWindow(t, norm[r].lookback) /\ Matches(t, type))

\* a list ordered by date, earliest first, transactions of the same date in
\* the order of the list
RankByDate(list, j) ==
  1 + Cardinality({i \in 1..Len(list) :
                     \/ list[i].date.iso < list[j].date.iso
                     \/ list[i].date.iso = list[j].date.iso /\ i < j})

OrderedByDate(list) ==
  [k \in 1..Len(list) |-> list[CHOOSE j \in 1..Len(list) : RankByDate(list, j) = k]]

FirstFive(list) == SubSeq(list, 1, IF Len(list) < 5 THEN Len(list) ELSE 5)

Reduced(list) ==
  [i \in 1..Len(list) |->
     [tx_id |-> list[i].tx_id, date |-> list[i].date, amount |-> list[i].amount,
      currency |-> list[i].currency, method |-> list[i].method,
      counterparty_country |-> list[i].counterparty_country]]

OneCasePerClientAndType(r) ==
  \A k \in 1..Len(cases[r]) : \A l \in 1..Len(cases[r]) :
    (cases[r][k].client_id = cases[r][l].client_id /\ cases[r][k].type = cases[r][l].type) => k = l

\* C13 as stated: at most one case per (client_id, type); each case has at
\* most 5 samples, the first (up to 5) of the client's in-window
\* transactions matching the pattern's filter in the order of the
\* transaction input, for all three case types, each reduced to the six
\* fields
C13_SamplesInDocumentOrder ==
  \A r \in Req : Built(r) =>
    /\ OneCasePerClientAndType(r)
    /\ \A k \in 1..Len(cases[r]) :
         LET c == cases[r][k]
         IN /\ Len(c.samples) <= 5
            /\ c.samples = Reduced(FirstFive(MatchingInOrder(r, c.client_id, c.type)))

\* C13 amended: as above for corridor and large_domestic cases; the samples
\* of a structuring case are the first (up to 5) of the matching
\* transactions ordered by date, earliest first, those of the same date in
\* the order of the transaction input
C13_SamplesStructuringByDate ==
  \A r \in Req : Built(r) =>
    /\ OneCasePerClientAndType(r)
    /\ \A k \in 1..Len(cases[r]) :
         LET c == cases[r][k]
             matching == MatchingInOrder(r, c.client_id, c.type)
         IN /\ Len(c.samples) <= 5
            /\ c.samples = Reduced(FirstFive(IF c.type = "structuring"
                                             THEN OrderedByDate(matching) ELSE matching))

\* six cash deposits given latest first: the structuring case lists five of
\* them, earliest first
C13_Witness ==
  /\ Built(1)
  /\ InputTxIds(1) = <<"k2", "k2", "k1", "k1", "k0", "k0">>
  /\ Len(cases[1]) = 1
  /\ cases[1][1].type = "structuring"
  /\ [i \in 1..Len(cases[1][1].samples) |-> cases[1][1].samples[i].tx_id]
       = <<Str("k0"), Str("k0"), Str("k1"), Str("k1"), Str("k2")>>

\* the reasons of a score record without its context notes
WithoutContext(reasons) == SelectSeq(reasons, LAMBDA x : x.type # "context")

RECURSIVE PointsOf(_, _)
PointsOf(reasons, family) ==
  IF reasons = <<>> THEN 0
  ELSE (IF Head(reasons).family = family THEN Head(reasons).points ELSE 0)
       + PointsOf(Tail(reasons), family)

ScoreFrom(reasons) ==
  Min(PointsOf(reasons, "profile"), 20) + Min(PointsOf(reasons, "behavior"), 25)
  + Min(PointsOf(reasons, "corridor"), 20)

\* C14: context notes have no score impact: a context note carries a text
\* and neither family nor points, and the score and band of every record are
\* those that its reasons give with all context notes removed
C14_ContextNotesDoNotScore ==
  \A r \in Req : Scored(r) =>
    \A i \in 1..Len(scores[r]) :
      LET rec == scores[r][i]
          scoring == WithoutContext(rec.reasons)
      IN /\ \A k \in 1..Len(rec.reasons) :
              rec.reasons[k].type = "context" => DOMAIN rec.reasons[k] = {"type", "text"}
         /\ \A k \in 1..Len(scoring) : scoring[k].type = "reason"
         /\ rec.score = ScoreFrom(scoring)
         /\ rec.band = (IF ScoreFrom(scoring) >= 30 THEN "High"
                        ELSE IF ScoreFrom(scoring) >= 15 THEN "Medium" ELSE "Low")

\* transfers to RU and CN: a context note for RU follows the corridor reason,
\* and the corridor family counts 20
C14_Witness ==
  /\ Scored(1)
  /\ InputTxIds(1) = <<"r25", "c20">>
  /\ \E k \in 1..Len(scores[1][1].reasons) :
       scores[1][1].reasons[k] = context([note |-> "FATF call-for-action", cc |-> "RU"])
  /\ PointsOf(WithoutContext(scores[1][1].reasons), "corridor") = 20

(***************************************************************************)
(* SpecUpload: two requests, each with missing, unparseable or good files, *)
(* interleaved at their await points; zipping may fail                     *)
(***************************************************************************)
GoodClients == Csv(<<ClientRow("c1", Str("Y"), Str(""), Str(""), Str(""), Str("AU"))>>)
GoodTransactions ==
  Csv(<<TxRow("t1", "c1", Iso(Day0), NumStr(100000, ""), Str("out"), Str("eft"), Str("AU"))>>)

UploadInputs == {
  [clients |-> None, transactions |-> GoodTransactions],
  [clients |-> GoodClients, transactions |-> None],
  [clients |-> GoodClients, transactions |-> Unparseable],
  [clients |-> Unparseable, transactions |-> GoodTransactions],
  [clients |-> GoodClients, transactions |-> GoodTransactions],
  [clients |-> GoodClients, transactions |-> Csv(<<>>)] }

InitUpload ==
  /\ Idle
  /\ host = HostUTC
  /\ signKey \in {NoKey, GoodKey}
  /\ unit = None
  /\ input \in [Req -> UploadInputs]

NextUpload ==
  \/ \E r \in Req : Upload400(r)
  \/ \E r \in Req : Upload500(r)
  \/ \E r \in Req : UploadStart(r)
  \/ \E r \in Req : UploadBuild(r)
  \/ \E r \in Req : UploadZipFails(r)
  \/ \E r \in Req : UploadFinish(r)
  \/ Tick

SpecUpload == InitUpload /\ [][NextUpload]_vars

\* the archive of a request that completed: its four files and manifest.json
ArchiveOf(r) ==
  [zip |-> Append(files[r], [name |-> "manifest.json", buf |-> <<manifest[r]>>])]

\* every entry of the store is the complete result of a request that was
\* answered 200 with the entry's token
StoreHoldsOnlyCompleted ==
  \A t \in Tokens :
    store[t] # None =>
      /\ DOMAIN store[t] = {"zipBuffer", "manifest", "expiresAt"}
      /\ \E r \in Req :
           /\ Done200(r)
           /\ resp[r].verify_url = t /\ resp[r].download_url = t
           /\ store[t].manifest = manifest[r]
           /\ store[t].zipBuffer = ArchiveOf(r)
           /\ Len(manifest[r].files) = 4

\* a request that failed was answered without URLs
FailedHasNoUrl ==
  \A r \in Req :
    (pc[r] = "done" /\ resp[r].status # 200) =>
      /\ resp[r].status \in {400, 500}
      /\ DOMAIN resp[r] = {"status"}

\* a step that answers a request with 400 or 500 leaves the store as it was
FailureLeavesStore ==
  (\E r \in Req : pc[r] # "done" /\ pc'[r] = "done" /\ resp'[r].status # 200)
    => (store' = store /\ timers' = timers)

\* C15: POST /upload is atomic with respect to the link store: an entry
\* {zipBuffer, manifest, expiresAt} is added only when parsing,
\* normalization, scoring, case building, manifest construction and zipping
\* have completed; a request answered 400 or 500 leaves the store unchanged
\* and returns no verify/download URL
C15_UploadAtomic ==
  /\ [](StoreHoldsOnlyCompleted /\ FailedHasNoUrl)
  /\ [][FailureLeavesStore]_vars

\* one request was stored under its token while the other failed in zipping
C15_Witness ==
  /\ Done200(1)
  /\ store[resp[1].verify_url].manifest = manifest[1]
  /\ pc[2] = "done" /\ resp[2].status = 500
  /\ parses(input[2].clients) /\ parses(input[2].transactions)
  /\ Cardinality({t \in Tokens : store[t] # None}) = 1

(***************************************************************************)
(* SpecLookback: one upload whose transactions are dated around a month    *)
(* end and the middle of a month, on hosts west of, at and east of UTC     *)
(***************************************************************************)
MaxLookbackTx == 3

\* 2025-08-31: eighteen months earlier is February 2024, a shorter month
MonthEnd == MonthStart(44) + 30

LookbackPool == <<
  TxRow("m30", "c1", Iso(MonthEnd - 1), NumStr(500, ""), Str("in"), Str("cash"), Str("")),
  TxRow("m31", "c1", Iso(MonthEnd), NumStr(500, ""), Str("in"), Str("cash"), Str("")),
  TxRow("d0", "c1", Iso(Day0), NumStr(2500000, ""), Str("out"), Str("wire"), Str("RU")),
  TxRow("nodate", "c1", Str(""), NumStr(500, ""), Str("in"), Str("cash"), Str("")),
  TxRow("noamt", "c1", Iso(Day0 + 1), Str("abc"), Str("in"), Str("cash"), Str("")) >>

InitLookback ==
  /\ Idle
  /\ host \in {HostUTC, HostSydney, HostDst}
  /\ signKey = NoKey
  /\ unit = None
  /\ \E ix \in UpTo(Len(LookbackPool), MaxLookbackTx) :
       /\ Ascending(ix)
       /\ input = [r \in Req |->
                     IF r = 1
                     THEN [clients |-> Csv(<<ClientRow("c1", Str(""), Str(""), Str(""), Str(""), Str("AU"))>>),
                           transactions |-> Csv(Pick(LookbackPool, ix))]
                     ELSE NoInput]

NextLookback == UploadStart(1) \/ UploadBuild(1) \/ UploadFinish(1)

SpecLookback == InitLookback /\ [][NextLookback]_vars

\* the calendar day k months before day n, clamped to the target month
MinusMonths(n, k) ==
  LET m == MonthOf(n)
  IN MonthStart(m - k) + Min(n - MonthStart(m), MonthLen[m - k] - 1)

\* the greatest date (a day number) among accepted transactions
GreatestDate(txs) ==
  CHOOSE n \in {txs[i].date.iso : i \in 1..Len(txs)} :
    \A i \in 1..Len(txs) : txs[i].date.iso <= n

LookbackOf(txs, lb, today) ==
  IF Len(txs) > 0
  THEN /\ lb.end = Iso(GreatestDate(txs))
       /\ lb.start = Iso(MinusMonths(GreatestDate(txs), 18))
       /\ \A i \in 1..Len(txs) : txs[i].date.iso <= lb.end.iso
       /\ \E i \in 1..Len(txs) :
            /\ txs[i].date.iso = GreatestDate(txs)
            /\ lb.start.iso <= txs[i].date.iso /\ txs[i].date.iso <= lb.end.iso
            /\ inWindow(txs[i], lb)
  ELSE lb.end = Iso(today)

\* C16: for every non-empty set of accepted transactions, on every host,
\* lookback.end is the greatest accepted date and lookback.start is end
\* minus 18 calendar months, so the latest accepted transaction is inside
\* the window and none lies after end; with no accepted transaction, end is
\* the current processing date
C16_LookbackWindow ==
  \A r \in Req :
    Scored(r) => LookbackOf(norm[r].txs, norm[r].lookback, now \div DaySecs)

\* on the host ten hours east of UTC the only transaction, dated 2025-10-15,
\* is accepted with the date of the day before, the window ends a further
\* day earlier, and the scorer sees no transaction of the client
C16_LatestOutsideWindow ==
  /\ host = HostSydney
  /\ Scored(1)
  /\ InputTxIds(1) = <<"d0">>
  /\ Len(norm[1].txs) = 1
  /\ norm[1].txs[1].date = Iso(Day0 - 1)
  /\ norm[1].lookback.end = Iso(Day0 - 2)
  /\ byClientGet(norm[1].txs, norm[1].lookback, "c1") = <<>>

(***************************************************************************)
(* SpecSummarizer: scoreAll called with and without a summarizer key, the  *)
(* completion of each client throwing or resolving                         *)
(***************************************************************************)
MaxSummTx == 1

SummClientPool == <<
  ClientRow("c1", Str("Y"), Str(""), Str(""), Str(""), Str("AU")),
  ClientRow("c2", Str(""), Str(""), Str(""), Str(""), Str("NZ")),
  ClientRow("c1", Str(""), Str(""), Str(""), Str(""), Str("AU")) >>

SummTxPool == <<
  TxRow("l", "c1", Iso(Day0), NumStr(100000, ""), Str("out"), Str("eft"), Str("AU")),
  TxRow("r25", "c2", Iso(Day0), NumStr(25000, ""), Str("out"), Str("wire"), Str("RU")),
  TxRow("c20", "c2", Iso(Day0), NumStr(20000, ""), Str("out"), Str("wire"), Str("CN")) >>

Completions ==
  {Throws, Undefined, Str(""), Str(" "), Str(" High risk client. "), Str("Summary")}

ApiKeys == {Undefined, Str(""), Str("sk-live")}

InitSummarizer ==
  /\ Idle
  /\ host = HostUTC
  /\ signKey = NoKey
  /\ input = [r \in Req |-> NoInput]
  /\ \E cx \in UNION {[1..len -> 1..Len(SummClientPool)] : len \in {1, 2}},
        ix \in UpTo(Len(SummTxPool), MaxSummTx),
        key \in ApiKeys :
       \E ai \in [1..Len(cx) -> Completions] :
         /\ Ascending(ix)
         /\ LET nc == normalizeClients(Pick(SummClientPool, cx))
                nt == normalizeTransactions(Pick(SummTxPool, ix), now)
            IN unit = [fn |-> "scoreAll", clients |-> nc.clients, txs |-> nt.txs,
                       lookback |-> nt.lookback, openaiApiKey |-> key, ai |-> ai,
                       returned |-> None]

CallScoreAll ==
  /\ unit # None
  /\ unit.fn = "scoreAll"
  /\ unit.returned = None
  /\ unit' = [unit EXCEPT !.returned =
                [scores |-> scoreAll(unit.clients, unit.txs, unit.lookback,
                                     unit.openaiApiKey, unit.ai),
                 rulesMeta |-> rulesMeta]]
  /\ UNCHANGED <<host, signKey, now, input, pc, norm, scores, cases, files,
                 manifest, resp, store, timers>>

NextSummarizer == CallScoreAll

SpecSummarizer == InitSummarizer /\ [][NextSummarizer]_vars

ScoreAllReturned == unit # None /\ unit.fn = "scoreAll" /\ unit.returned # None

ScoringFields == {"client_id", "score", "band", "reasons"}

\* the completion of client i resolves with text that is not blank
HasText(i) ==
  /\ unit.ai[i] \notin {Throws, Undefined}
  /\ unit.ai[i].str \notin {"", " "}

\* C17: the optional summarizer cannot affect scoring: whether no key is
\* given, the call throws, it returns empty text or it returns text,
\* scoreAll returns a record per client with the same client_id, score,
\* band and reasons as without a key; the only difference is the narrative
\* field, present exactly when a key is given and the text is not blank
C17_SummarizerDoesNotAffectScoring ==
  ScoreAllReturned =>
    LET got  == unit.returned.scores
        base == scoreAll(unit.clients, unit.txs, unit.lookback, Undefined, <<>>)
    IN /\ Len(got) = Len(unit.clients)
       /\ Len(base) = Len(unit.clients)
       /\ \A i \in 1..Len(got) :
            /\ DOMAIN base[i] = ScoringFields
            /\ \A k \in ScoringFields : got[i][k] = base[i][k]
            /\ DOMAIN got[i] \subseteq ScoringFields \cup {"narrative"}
            /\ "narrative" \in DOMAIN got[i]
                 <=> (unit.openaiApiKey = Str("sk-live") /\ HasText(i))

\* with a key, the first client's summary throws and the second's returns
\* text: both are scored, only the second carries a narrative
C17_Witness ==
  /\ ScoreAllReturned
  /\ unit.openaiApiKey = Str("sk-live")
  /\ unit.ai = <<Throws, Str(" High risk client. ")>>
  /\ DOMAIN unit.returned.scores[1] = ScoringFields
  /\ unit.returned.scores[1].score = 20
  /\ unit.returned.scores[2].narrative = Str("High risk client.")
  /\ unit.returned.scores[2].score = 6

(***************************************************************************)
(* SpecConcurrent: two uploads with their own files, interleaved at the    *)
(* await points of the handler, while the clock advances                   *)
(***************************************************************************)
ConcurrentInputs == <<
  \* c1 is a PEP with two corridor transfers
  [clients |-> Csv(<<ClientRow("c1", Str("Y"), Str(""), Str(""), Str(""), Str("AU"))>>),
   transactions |-> Csv(<<TxRow("a1", "c1", Iso(Day0), NumStr(25000, ""), Str("out"), Str("wire"), Str("RU")),
                          TxRow("a2", "c1", Iso(Day0), NumStr(1000, ""), Str("out"), Str("wire"), Str("CN"))>>)],
  \* c1 again, another firm's client: one large domestic transfer
  [clients |-> Csv(<<ClientRow("c1", Str(""), Str(""), Str(""), Str(""), Str("AU"))>>),
   transactions |-> Csv(<<TxRow("b1", "c1", Iso(Day0), NumStr(100000, ""), Str("out"), Str("eft"), Str("AU"))>>)],
  \* c1 and c2 without a valid row: the window ends at the processing date
  [clients |-> Csv(<<KycEdgeClient,
                     ClientRow("c2", Str(""), Str(""), Str(""), Str(""), Str("NZ"))>>),
   transactions |-> Csv(<<TxRow("n1", "c2", Str(""), NumStr(500, ""), Str("in"), Str("cash"), Str(""))>>)] >>

InitConcurrent ==
  /\ Idle
  /\ host = HostUTC
  /\ signKey = GoodKey
  /\ unit = None
  \* two different uploads; which of them is request 1 does not matter, the
  \* steps of the two requests interleave in every order
  /\ \E ix \in [Req -> 1..Len(ConcurrentInputs)] :
       /\ ix[1] < ix[2]
       /\ input = [r \in Req |-> ConcurrentInputs[ix[r]]]

NextConcurrent ==
  \/ \E r \in Req : UploadStart(r)
  \/ \E r \in Req : UploadBuild(r)
  \/ \E r \in Req : UploadFinish(r)
  \/ Tick

SpecConcurrent == InitConcurrent /\ [][NextConcurrent]_vars

\* the readings the clock can have shown so far
ClockReadings == {c \in StartOfClock..now : (c - StartOfClock) % 5 = 0}

\* what one request computes from its own files when nothing else runs: it
\* normalizes and scores at clock reading c1, builds at clock reading c2
AloneNormalized(in, c1) ==
  [nc |-> normalizeClients(in.clients.rows),
   nt |-> normalizeTransactions(in.transactions.rows, c1)]

AloneScores(in, c1) ==
  LET n == AloneNormalized(in, c1)
  IN scoreAll(n.nc.clients, n.nt.txs, n.nt.lookback, Undefined, <<>>)

AloneCases(in, c1) ==
  LET n == AloneNormalized(in, c1)
  IN buildCases(n.nt.txs, n.nt.lookback)

AloneManifestFiles(in, c1, c2) ==
  LET n == AloneNormalized(in, c1)
      fs == <<[name |-> "clients.json", buf |-> jsonClients(n.nc.clients)],
              [name |-> "transactions.json", buf |-> jsonTxs(n.nt.txs)],
              [name |-> "cases.json", buf |-> jsonCases(AloneCases(in, c1))],
              [name |-> "program.html",
               buf |-> programHtml(c2, n.nc.clientHeaderMap, n.nt.txHeaderMap,
                                   n.nt.rejects)]>>
  IN buildManifest(fs, rulesMeta, c2, signKey).files

AsWhenAlone(r) ==
  \E c1 \in ClockReadings :
    /\ scores[r] = AloneScores(input[r], c1)
    /\ Built(r) =>
         /\ cases[r] = AloneCases(input[r], c1)
         /\ \E c2 \in ClockReadings :
              c2 >= c1 /\ manifest[r].files = AloneManifestFiles(input[r], c1, c2)

\* a step changes the store only under the token returned to the request
\* the step completes
WritesOwnToken ==
  \A t \in Tokens :
    store'[t] # store[t] =>
      \E r \in Req :
        /\ pc[r] = "awaitZip" /\ pc'[r] = "done"
        /\ resp'[r].status = 200 /\ resp'[r].verify_url = t
        /\ store'[t].manifest = manifest[r]
        /\ \A q \in Req \ {r} : pc'[q] = pc[q] /\ resp'[q] = resp[q]

\* C18: when two /upload requests interleave at their await points, each
\* request's scores, cases and manifest file entries equal those it produces
\* from its own files when run alone (at the same clock readings), and a
\* request writes the link store only under its own token
C18_ConcurrentUploadsIndependent ==
  /\ [](\A r \in Req : Scored(r) => AsWhenAlone(r))
  /\ [][WritesOwnToken]_vars

\* two different uploads about a client c1 have both completed, each scored
\* from its own files and stored under its own token
C18_Witness ==
  /\ Done200(1) /\ Done200(2)
  /\ input[1] # input[2]
  /\ scores[1][1].client_id = Str("c1") /\ scores[2][1].client_id = Str("c1")
  /\ scores[1][1].score = 40 /\ scores[2][1].score = 15
  /\ resp[1].verify_url # resp[2].verify_url
  /\ store[resp[1].verify_url].manifest = manifest[1]
  /\ store[resp[2].verify_url].manifest = manifest[2]

(***************************************************************************)
(* SpecStore: put, GET /verify, GET /download and timer callbacks on the   *)
(* link store while the clock advances past the entries' expiry            *)
(***************************************************************************)
MaxPuts == 2
MaxStoreClock == 100

\* the n-th artifact put into the store
ArtifactZip(n) == [zip |-> <<n>>]
ArtifactManifest(n) == [files |-> <<n>>]

\* a put that has not happened yet
PutCount == unit.puts["tokA"] + unit.puts["tokB"]

InitStore ==
  /\ Idle
  /\ host = HostUTC
  /\ signKey = NoKey
  /\ input = [r \in Req |-> NoInput]
  /\ unit = [fn |-> "store",
             puts |-> [t \in Tokens |-> 0],
             latest |-> [t \in Tokens |-> None],
             returned |-> None]

\* verifyStore.put(token, zipBuffer, manifest, 1); unit.latest remembers the
\* arguments and the expiry of the latest put under each token
CallPut ==
  /\ PutCount < MaxPuts
  /\ \E token \in Tokens, ttl \in {1} :
       LET n == PutCount + 1
       IN /\ store' = putEntry(token, ArtifactZip(n), ArtifactManifest(n), ttl)
          /\ timers' = putTimer(token, ttl)
          /\ unit' = [unit EXCEPT !.puts[token] = @ + 1,
                                  !.latest[token] = store'[token]]
  /\ UNCHANGED <<host, signKey, now, input, pc, norm, scores, cases, files,
                 manifest, resp>>

GetVerify ==
  /\ \E token \in Tokens :
       /\ store' = get(token).map
       /\ unit' = [unit EXCEPT !.returned = verifyResponse(token)]
  /\ UNCHANGED <<host, signKey, now, input, pc, norm, scores, cases, files,
                 manifest, resp, timers>>

GetDownload ==
  /\ \E token \in Tokens :
       /\ store' = get(token).map
       /\ unit' = [unit EXCEPT !.returned = downloadResponse(token)]
  /\ UNCHANGED <<host, signKey, now, input, pc, norm, scores, cases, files,
                 manifest, resp, timers>>

\* half a minute, or a little more, passes
Elapse ==
  /\ now < StartOfClock + MaxStoreClock
  /\ \E dt \in {30, 35} : now' = now + dt
  /\ UNCHANGED <<host, signKey, input, pc, norm, scores, cases, files, manifest,
                 resp, store, timers, unit>>

NextStore == CallPut \/ GetVerify \/ GetDownload \/ TimerFires \/ Elapse

SpecStore == InitStore /\ [][NextStore]_vars

\* the token was never put, or its latest entry has expired
UnknownOrExpired(token) ==
  \/ unit.latest[token] = None
  \/ unit.latest[token].expiresAt < now

\* C19: after any sequence of put and get calls and timer firings,
\* get(token) returns null for a token never put or whose entry's expiresAt
\* is earlier than now, leaving no entry under the token, and otherwise
\* returns the zipBuffer and manifest of the latest put under the token;
\* GET /verify and GET /download answer 404 in the first case and serve the
\* latest manifest and archive in the second
C19_LinkStoreSafe ==
  \A token \in Tokens :
    IF UnknownOrExpired(token)
    THEN /\ get(token).entry = Null
         /\ get(token).map[token] = None
         /\ verifyResponse(token) = [status |-> 404]
         /\ downloadResponse(token) = [status |-> 404]
    ELSE /\ get(token).entry # Null
         /\ get(token).entry.zipBuffer = unit.latest[token].zipBuffer
         /\ get(token).entry.manifest = unit.latest[token].manifest
         /\ verifyResponse(token) = [status |-> 200, manifest |-> unit.latest[token].manifest]
         /\ downloadResponse(token) = [status |-> 200, body |-> unit.latest[token].zipBuffer]

\* tokA was put twice, half a minute apart; the timer of the first put has
\* fired and removed the second entry, which has not expired: get returns
\* null and both routes answer 404
C19_StaleTimerDeletes ==
  /\ unit.puts["tokA"] = 2
  /\ unit.latest["tokA"].zipBuffer = ArtifactZip(2)
  /\ unit.latest["tokA"].expiresAt > now
  /\ Cardinality(timers) = 1
  /\ store["tokA"] = None
  /\ get("tokA").entry = Null
  /\ unit.returned = [status |-> 404]

(***************************************************************************)
(* SpecAccept: one upload whose rows differ in client_id, date and amount  *)
(***************************************************************************)
MaxAcceptTx == 3

AcceptPool == <<
  TxRow("ok", "c1", Iso(Day0), NumStr(1000, ""), Str("out"), Str("wire"), Str("RU")),
  TxRow("abc", "c1", Iso(Day0), Str("abc"), Str("out"), Str("wire"), Str("RU")),
  TxRow("paren", "c1", Iso(Day0), NumStr(500, "()"), Str("out"), Str("wire"), Str("RU")),
  TxRow("nocid", "", Iso(Day0), NumStr(1000, ""), Str("out"), Str("wire"), Str("RU")),
  TxRow("neg", "c1", Iso(Day0), NumStr(0 - 500, ""), Str("out"), Str("wire"), Str("RU")),
  TxRow("negd", "c1", Iso(Day0), NumStr(0 - 25000, "$,"), Str("out"), Str("wire"), Str("RU")),
  TxRow("blank", "c1", Iso(Day0), Str(""), Str("out"), Str("wire"), Str("RU")),
  TxRow("nodate", "c1", Str(""), NumStr(1000, ""), Str("out"), Str("wire"), Str("RU")),
  TxRow("baddate", "c1", Str("garbage"), NumStr(1000, ""), Str("out"), Str("wire"), Str("RU")) >>

InitAccept ==
  /\ Idle
  /\ host = HostUTC
  /\ signKey = NoKey
  /\ unit = None
  /\ \E ix \in UpTo(Len(AcceptPool), MaxAcceptTx) :
       /\ Ascending(ix)
       /\ input = [r \in Req |->
                     IF r = 1
                     THEN [clients |-> Csv(<<ClientRow("c1", Str(""), Str(""), Str(""), Str(""), Str("AU"))>>),
                           transactions |-> Csv(Pick(AcceptPool, ix))]
                     ELSE NoInput]

NextAccept == UploadStart(1) \/ UploadBuild(1) \/ UploadFinish(1)

SpecAccept == InitAccept /\ [][NextAccept]_vars

\* client_id is a non-empty string, date is a date string, amount is a number
WellFormedTx(tx) ==
  /\ IsStr(tx.client_id) /\ tx.client_id # Str("")
  /\ tx.date # Null /\ IsIso(tx.date)
  /\ IsNum(tx.amount)

\* C20: every transaction accepted by normalizeTransactions has a non-empty
\* client_id, a non-null date, and an amount that is a finite number >= 0
C20_AcceptedTxWellFormed ==
  \A r \in Req :
    Scored(r) =>
      \A i \in 1..Len(norm[r].txs) :
        WellFormedTx(norm[r].txs[i]) /\ norm[r].txs[i].amount.num >= 0

\* the rows with the amounts -500 and -$25,000 are both accepted, with
\* negative amounts, and nothing is rejected
C20_NegativeAmountAccepted ==
  /\ Scored(1)
  /\ InputTxIds(1) = <<"neg", "negd">>
  /\ Len(norm[1].txs) = 2
  /\ norm[1].txs[1].amount = Num(0 - 500)
  /\ norm[1].txs[2].amount = Num(0 - 25000)
  /\ norm[1].rejects = <<>>

(***************************************************************************)
(* Properties of the bundle and its manifest                               *)
(***************************************************************************)
NamesOf(entries) == [i \in 1..Len(entries) |-> entries[i].name]

ArtifactNames == <<"clients.json", "transactions.json", "cases.json", "program.html">>

\* C21: for every successful upload the archive holds exactly clients.json,
\* transactions.json, cases.json, program.html and manifest.json, in that
\* order with manifest.json last; manifest.files has exactly one entry for
\* each of the first four, in the same order, and none for manifest.json
C21_BundleCoverage ==
  \A t \in Tokens :
    store[t] # None =>
      LET archive == store[t].zipBuffer.zip
          m == store[t].manifest
      IN /\ NamesOf(archive) = ArtifactNames \o <<"manifest.json">>
         /\ NamesOf(m.files) = ArtifactNames
         /\ archive[Len(archive)].buf = <<m>>
         /\ \A i \in 1..Len(m.files) :
              /\ m.files[i].sha256 = sha256Hex(archive[i].buf)
              /\ m.files[i].bytes = Len(archive[i].buf)

\* a signed upload completed and its bundle is in the store
C21_Witness ==
  /\ Done200(1)
  /\ signKey = GoodKey
  /\ "signing" \in DOMAIN manifest[1]
  /\ store[resp[1].verify_url].manifest = manifest[1]
  /\ Len(store[resp[1].verify_url].zipBuffer.zip) = 5
  /\ Len(manifest[1].files) = 4

(***************************************************************************)
(* SpecSigning: two calls of buildManifest; between them a file's content  *)
(* or name, the ruleset or the clock may change                            *)
(***************************************************************************)
\* rulesMeta arguments: the ruleset of rules.js, one with other sources, one
\* with another id, one without an id
RulesMetas ==
  {rulesMeta,
   [rulesMeta EXCEPT !.sources.fatf_grey_list_as_at = "2026-02-20"],
   [rulesMeta EXCEPT !.id = "dnfbp-2026.01"],
   [rulesMeta EXCEPT !.id = ""]}

InitSigning ==
  /\ Idle
  /\ host = HostUTC
  /\ signKey \in {NoKey, GoodKey}
  /\ input = [r \in Req |-> NoInput]
  /\ \E b1 \in Buffers, meta \in RulesMetas :
       unit = [fn |-> "buildManifest",
               namedFiles |-> <<[name |-> "clients.json", buf |-> b1],
                                [name |-> "cases.json", buf |-> <<1, 0>>]>>,
               meta |-> meta,
               first |-> None, second |-> None]

\* buildManifest(namedFiles, unit.meta) is called and returns
CallBuildManifestWith ==
  /\ unit.fn = "buildManifest" /\ unit.second = None
  /\ LET call == [namedFiles |-> unit.namedFiles, at |-> now, meta |-> unit.meta,
                  manifest |-> buildManifest(unit.namedFiles, unit.meta, now, signKey)]
     IN unit' = IF unit.first = None THEN [unit EXCEPT !.first = call]
                ELSE [unit EXCEPT !.second = call]
  /\ UNCHANGED <<host, signKey, now, input, pc, norm, scores, cases, files,
                 manifest, resp, store, timers>>

\* between the two calls one named file is given another name
RenameOneFile ==
  /\ unit.fn = "buildManifest" /\ unit.first # None /\ unit.second = None
  /\ unit.namedFiles = unit.first.namedFiles
  /\ \E i \in 1..Len(unit.namedFiles) :
       unit' = [unit EXCEPT !.namedFiles[i].name = "program.html"]
  /\ UNCHANGED <<host, signKey, now, input, pc, norm, scores, cases, files,
                 manifest, resp, store, timers>>

\* between the two calls the caller passes another rulesMeta
ChangeRulesMeta ==
  /\ unit.fn = "buildManifest" /\ unit.first # None /\ unit.second = None
  /\ unit.meta = unit.first.meta
  /\ \E meta \in RulesMetas \ {unit.meta} : unit' = [unit EXCEPT !.meta = meta]
  /\ UNCHANGED <<host, signKey, now, input, pc, norm, scores, cases, files,
                 manifest, resp, store, timers>>

NextSigning ==
  CallBuildManifestWith \/ ChangeOneFile \/ RenameOneFile \/ ChangeRulesMeta \/ Tick

SpecSigning == InitSigning /\ [][NextSigning]_vars

IsSigned(m) == "signing" \in DOMAIN m

SignedFields(m) ==
  [files |-> m.files, created_utc |-> m.created_utc, ruleset_id |-> m.ruleset_id]

\* C22: when buildManifest attaches a signing block, the signed message is
\* the serialization of exactly {files, created_utc, ruleset_id} of the
\* manifest that is returned; two manifests equal in these three fields get
\* the same message and signature, and a change to a file's name, bytes or
\* sha256, to created_utc or to ruleset_id changes the message
C22_SignedMessage ==
  /\ \A c \in ManifestCalls :
       IsSigned(c.manifest) =>
         /\ DOMAIN c.manifest.signing.signature.signed = {"files", "created_utc", "ruleset_id"}
         /\ c.manifest.signing.signature.signed = SignedFields(c.manifest)
         /\ c.manifest.signing.signature = signDetached(SignedFields(c.manifest), signKey)
  /\ \A c1 \in ManifestCalls : \A c2 \in ManifestCalls :
       (IsSigned(c1.manifest) /\ IsSigned(c2.manifest)) =>
         /\ (SignedFields(c1.manifest) = SignedFields(c2.manifest))
              <=> (c1.manifest.signing.signature.signed = c2.manifest.signing.signature.signed)
         /\ (SignedFields(c1.manifest) = SignedFields(c2.manifest))
              <=> (c1.manifest.signing = c2.manifest.signing)

\* two signed manifests that differ only in their sources carry the same
\* signature
C22_Witness ==
  /\ unit.fn = "buildManifest" /\ unit.second # None
  /\ IsSigned(unit.first.manifest) /\ IsSigned(unit.second.manifest)
  /\ unit.first.manifest.sources # unit.second.manifest.sources
  /\ unit.first.manifest # unit.second.manifest
  /\ unit.first.manifest.signing = unit.second.manifest.signing

\* two signed manifests that differ in ruleset_id only carry different
\* signatures
C22_RulesetChangesMessage ==
  /\ unit.fn = "buildManifest" /\ unit.second # None
  /\ IsSigned(unit.first.manifest) /\ IsSigned(unit.second.manifest)
  /\ unit.first.manifest.files = unit.second.manifest.files
  /\ unit.first.manifest.created_utc = unit.second.manifest.created_utc
  /\ unit.first.manifest.ruleset_id = "dnfbp-2025.11"
  /\ unit.second.manifest.ruleset_id = "dnfbp-starter"
  /\ unit.first.manifest.signing # unit.second.manifest.signing

(***************************************************************************)
(* Order and content of the reasons                                        *)
(***************************************************************************)
RuleOrder ==
  <<"PEP flag present", "Sanctions flag present", "KYC last reviewed",
    "Higher-risk services", "Non-resident", "Structuring",
    "Large domestic transfer", "High-risk corridor">>

RankOf(ruleName) == CHOOSE i \in 1..Len(RuleOrder) : RuleOrder[i] = ruleName

\* the rule names of the scoring reasons, in the order of the list
RuleNames(reasons) ==
  LET scoring == SelectSeq(reasons, LAMBDA x : x.type = "reason")
  IN [i \in 1..Len(scoring) |-> scoring[i].text.rule]

\* C23: in every score record the scoring reasons appear in the fixed
\* rule-evaluation order (PEP, sanctions, stale KYC, higher-risk services,
\* non-resident, structuring, large domestic, corridor), each at most once,
\* and every context note comes after every scoring reason
C23_ReasonsInRuleOrder ==
  \A r \in Req :
    Scored(r) =>
      \A c \in 1..Len(scores[r]) :
        LET reasons == scores[r][c].reasons
        IN /\ \A i \in 1..Len(reasons) :
                /\ reasons[i].type \in {"reason", "context"}
                /\ reasons[i].type = "reason" =>
                     \E k \in 1..Len(RuleOrder) : RuleOrder[k] = reasons[i].text.rule
           /\ \A i \in 1..Len(reasons) : \A j \in (i + 1)..Len(reasons) :
                /\ (reasons[i].type = "reason" /\ reasons[j].type = "reason") =>
                     RankOf(reasons[i].text.rule) < RankOf(reasons[j].text.rule)
                /\ ~(reasons[i].type = "context" /\ reasons[j].type = "reason")

\* six rules fire for one client, and the note about RU follows them
C23_Witness ==
  /\ Scored(1)
  /\ InputTxIds(1) = <<"l", "r25", "c20">>
  /\ Len(scores[1][1].reasons) = 7
  /\ RuleNames(scores[1][1].reasons) =
       <<"Sanctions flag present", "KYC last reviewed", "Higher-risk services",
         "Non-resident", "Large domestic transfer", "High-risk corridor">>
  /\ scores[1][1].reasons[7].type = "context"

(***************************************************************************)
(* SpecContext: one upload whose transfers go to countries inside and      *)
(* outside the corridor set and the FATF lists                             *)
(***************************************************************************)
MaxContextTx == 4

ContextPool == <<
  TxRow("ru", "c1", Iso(Day0), NumStr(1000, ""), Str("out"), Str("wire"), Str("RU")),
  TxRow("ae", "c1", Iso(Day0), NumStr(25000, ""), Str("out"), Str("wire"), Str("ae")),
  TxRow("ir", "c1", Iso(Day0), NumStr(500, ""), Str("out"), Str("wire"), Str("IR")),
  TxRow("cn", "c1", Iso(Day0), NumStr(500, ""), Str("out"), Str("wire"), Str("CN")),
  \* on the grey list, not a corridor country
  TxRow("tr", "c1", Iso(Day0), NumStr(500, ""), Str("out"), Str("wire"), Str("TR")),
  \* inbound, another client's, before the window
  TxRow("ruIn", "c1", Iso(Day0), NumStr(500, ""), Str("in"), Str("wire"), Str("RU")),
  TxRow("ir2", "c2", Iso(Day0), NumStr(500, ""), Str("out"), Str("wire"), Str("IR")),
  TxRow("aeOld", "c1", Iso(Day0 - 600), NumStr(500, ""), Str("out"), Str("wire"), Str("AE")) >>

InitContext ==
  /\ Idle
  /\ host = HostUTC
  /\ signKey = NoKey
  /\ unit = None
  /\ \E ix \in UpTo(Len(ContextPool), MaxContextTx), forwards \in BOOLEAN :
       /\ Ascending(ix)
       /\ input = [r \in Req |->
                     IF r = 1
                     THEN [clients |-> Csv(<<ClientRow("c1", Str(""), Str(""), Str(""), Str(""), Str("AU"))>>),
                           transactions |->
                             Csv(IF forwards THEN Pick(ContextPool, ix)
                                 ELSE Reverse(Pick(ContextPool, ix)))]
                     ELSE NoInput]

NextContext == UploadStart(1) \/ UploadBuild(1) \/ UploadFinish(1)

SpecContext == InitContext /\ [][NextContext]_vars

\* the note, if any, that a corridor destination calls for
NoteFor(cc) ==
  IF cc \in {"IR", "KP", "RU"} THEN <<[note |-> "FATF call-for-action", cc |-> cc]>>
  ELSE IF cc \in {"AE", "TR", "MY", "PH", "BG", "MA"}
       THEN <<[note |-> "FATF increased monitoring", cc |-> cc]>>
       ELSE <<>>

\* the notes for the client's in-window outbound corridor transfers, one per
\* country, in the order in which the countries first occur in txs
RECURSIVE ExpectedNotes(_, _, _, _)
ExpectedNotes(r, cid, j, seen) ==
  IF j > Len(norm[r].txs) THEN <<>>
  ELSE LET cc == norm[r].txs[j].counterparty_country
       IN IF j \in CorridorIdx(r, cid) /\ cc.str \notin seen
          THEN NoteFor(cc.str) \o ExpectedNotes(r, cid, j + 1, seen \cup {cc.str})
          ELSE ExpectedNotes(r, cid, j + 1, seen)

ContextTexts(reasons) ==
  LET notes == SelectSeq(reasons, LAMBDA x : x.type = "context")
  IN [i \in 1..Len(notes) |-> notes[i].text]

\* C24: for each client, reasons contains exactly one context note per
\* distinct country among the client's in-window outbound transfers to
\* corridor countries - call-for-action for IR, KP, RU, else grey-list for
\* AE, TR, MY, PH, BG, MA, else none - in first-occurrence order, whether
\* or not the corridor rule triggered
C24_ContextNotes ==
  \A r \in Req :
    Scored(r) =>
      \A c \in 1..Len(scores[r]) :
        ContextTexts(scores[r][c].reasons)
          = ExpectedNotes(r, scores[r][c].client_id, 1, {})

\* transfers to CN, IR, RU and RU, all below the corridor rule's threshold:
\* the rule does not trigger, and the notes are the call-for-action notes of
\* IR and RU, in that order, once each
C24_Witness ==
  /\ Scored(1)
  /\ InputTxIds(1) = <<"cn", "ir", "ru", "ru">>
  /\ ~HasReason(scores[1][1], "High-risk corridor")
  /\ ContextTexts(scores[1][1].reasons) =
       <<[note |-> "FATF call-for-action", cc |-> "IR"],
         [note |-> "FATF call-for-action", cc |-> "RU"]>>

(***************************************************************************)
(* SpecKyc: one upload whose clients were reviewed just under, at and over *)
(* 360 days before or after the end of the window                          *)
(***************************************************************************)
MaxKycClients == 1

KycCells ==
  {Str(""), Str("garbage"), Iso(Day0), Iso(Day0 - 30),
   Iso(Day0 - 359), Iso(Day0 - 360), Iso(Day0 - 361), Iso(Day0 - 362), Iso(Day0 - 400),
   Iso(Day0 + 359), Iso(Day0 + 360), Iso(Day0 + 362)}

\* no row, a row dated Day0, a row dated the day after
KycTransactions ==
  {<<>>,
   <<TxRow("t0", "c1", Iso(Day0), NumStr(500, ""), Str("in"), Str("cash"), Str(""))>>,
   <<TxRow("t1", "c1", Iso(Day0 + 1), NumStr(500, ""), Str("in"), Str("cash"), Str(""))>>}

InitKyc ==
  /\ Idle
  /\ host \in {HostUTC, HostSydney, HostDst}
  /\ signKey = NoKey
  /\ unit = None
  /\ \E len \in 1..MaxKycClients, txRows \in KycTransactions :
     \E kyc \in [1..len -> KycCells] :
       input = [r \in Req |->
                  IF r = 1
                  THEN [clients |-> Csv([i \in 1..len |->
                                           ClientRow(BandIds[i], Str(""), Str(""), kyc[i], Str(""), Str("AU"))]),
                        transactions |-> Csv(txRows)]
                  ELSE NoInput]

NextKyc == UploadStart(1) \/ UploadBuild(1) \/ UploadFinish(1)

SpecKyc == InitKyc /\ [][NextKyc]_vars

\* the stale-KYC reasons of a score record
KycReasons(rec) ==
  SelectSeq(rec.reasons,
            LAMBDA x : x.type = "reason" /\ x.text.rule = "KYC last reviewed")

\* C25: a client gets the +10 profile reason exactly when
\* kyc_last_reviewed_at is a parseable date at least 360 calendar days
\* before or after lookback.end, with floor(days / 30) as the month count;
\* an absent or unparseable review date adds nothing and scoring completes
C25_StaleKyc ==
  \A r \in Req :
    Scored(r) =>
      /\ Len(scores[r]) = Len(norm[r].clients)
      /\ \A c \in 1..Len(scores[r]) :
           LET kyc == Get(norm[r].clients[c], "kyc_last_reviewed_at")
               end == norm[r].lookback.end
               stale == KycReasons(scores[r][c])
           IN IF IsIso(kyc) /\ Abs(kyc.iso - end.iso) >= 360
              THEN /\ Len(stale) = 1
                   /\ stale[1].points = 10 /\ stale[1].family = "profile"
                   /\ stale[1].text.months = Num(Abs(kyc.iso - end.iso) \div 30)
                   /\ scores[r][c].score = 10
              ELSE /\ stale = <<>>
                   /\ scores[r][c].score = 0

\* a review dated exactly 360 days after the end of the window is stale
C25_Witness ==
  /\ Scored(1)
  /\ norm[1].lookback.end = Iso(Day0)
  /\ Get(norm[1].clients[1], "kyc_last_reviewed_at") = Iso(Day0 + 360)
  /\ Len(KycReasons(scores[1][1])) = 1
  /\ KycReasons(scores[1][1])[1].text.months = Num(12)

(***************************************************************************)
(* SpecDates: one upload whose rows have a valid date, an empty or         *)
(* unparseable date or no date column, on hosts west of, at and east of UTC*)
(***************************************************************************)
MaxDateTx == 2

DatePool == <<
  TxRow("d0", "c1", Iso(Day0), NumStr(500, ""), Str("in"), Str("cash"), Str("")),
  TxRow("m31", "c1", Iso(MonthEnd), NumStr(500, ""), Str("in"), Str("cash"), Str("")),
  TxRow("d6", "c1", Iso(Day0 + 6), NumStr(500, ""), Str("in"), Str("cash"), Str("")),
  TxRow("empty", "c1", Str(""), NumStr(500, ""), Str("in"), Str("cash"), Str("")),
  TxRow("garbage", "c1", Str("garbage"), NumStr(500, ""), Str("in"), Str("cash"), Str("")) >>

InitDates ==
  /\ Idle
  /\ host \in {HostUTC, HostSydney, HostDst}
  /\ signKey = NoKey
  /\ unit = None
  /\ \E ix \in UpTo(Len(DatePool), MaxDateTx), hasDateColumn \in BOOLEAN :
       /\ StrictlyAscending(ix)
       /\ input = [r \in Req |->
                     IF r = 1
                     THEN [clients |-> Csv(<<ClientRow("c1", Str(""), Str(""), Str(""), Str(""), Str("AU"))>>),
                           transactions |->
                             Csv([i \in 1..Len(ix) |->
                                    IF hasDateColumn THEN DatePool[ix[i]]
                                    ELSE DropCell(DatePool[ix[i]], "Date")])]
                     ELSE NoInput]

NextDates == UploadStart(1) \/ UploadBuild(1) \/ UploadFinish(1)

SpecDates == InitDates /\ [][NextDates]_vars

\* the accepted transactions that came from the input row with this tx_id
AcceptedOf(r, id) == SelectSeq(norm[r].txs, LAMBDA t : t.tx_id = Str(id))

RejectIndexes(r) == {norm[r].rejects[k].index : k \in 1..Len(norm[r].rejects)}

\* C26: for every input row whose date is a valid ISO calendar date string
\* the accepted transaction's date is that same calendar date, on every
\* host, and normalizing the accepted date again leaves it unchanged; a row
\* whose date is absent or unparseable is rejected
C26_DateRoundTrip ==
  \A r \in Req :
    Scored(r) =>
      \A j \in 1..Len(input[r].transactions.rows) :
        LET row == input[r].transactions.rows[j]
            cell == Get(mapHeaders(row, TX_MAP), "date")
            got == AcceptedOf(r, Get(row, "tx_id").str)
        IN IF IsIso(cell)
           THEN /\ Len(got) = 1
                /\ got[1].date = cell
                /\ toISODate(parseISO(got[1].date)) = got[1].date
           ELSE /\ got = <<>>
                /\ (j - 1) \in RejectIndexes(r)

\* on the host ten hours east of UTC the row dated 2025-10-15 is accepted
\* with the date 2025-10-14, and normalizing that date again gives
\* 2025-10-13
C26_DateShifted ==
  /\ host = HostSydney
  /\ Scored(1)
  /\ InputTxIds(1) = <<"d0">>
  /\ Get(mapHeaders(input[1].transactions.rows[1], TX_MAP), "date") = Iso(Day0)
  /\ Len(norm[1].txs) = 1
  /\ norm[1].txs[1].date = Iso(Day0 - 1)
  /\ toISODate(parseISO(norm[1].txs[1].date)) = Iso(Day0 - 2)

(***************************************************************************)
(* SpecStoreLive: the link store with the event loop's guarantees: time    *)
(* passes, and a timer that is due is run                                  *)
(***************************************************************************)
\* a put early enough for its timer to fall within the clock's range
CallPutEarly ==
  /\ now + 65 <= StartOfClock + MaxStoreClock
  /\ CallPut

NextStoreLive == CallPutEarly \/ GetVerify \/ GetDownload \/ TimerFires \/ Elapse

SpecStoreLive ==
  /\ InitStore
  /\ [][NextStoreLive]_vars
  /\ WF_vars(TimerFires)
  /\ WF_vars(Elapse)

StoreEmpty == \A token \in Tokens : store[token] = None

\* C27: every entry put is eventually removed from the map - by the timer
\* scheduled at put even if the token is never read again, or earlier by a
\* get after expiresAt - so once puts stop the store becomes and stays empty
C27_EntriesEventuallyRemoved ==
  /\ \A token \in Tokens : (store[token] # None) ~> (store[token] = None)
  /\ <>[]StoreEmpty

\* two entries were put and never read, and the timers have emptied the store
C27_Witness ==
  /\ PutCount = 2
  /\ unit.returned = None
  /\ unit.latest["tokA"] # None /\ unit.latest["tokB"] # None
  /\ timers = {}
  /\ StoreEmpty

(***************************************************************************)
(* The accepted and the rejected rows                                      *)
(***************************************************************************)
\* the input rows (by position, from one) that are not the row of a reject
KeptPositions(r) ==
  {j \in 1..Len(input[r].transactions.rows) : (j - 1) \notin RejectIndexes(r)}

\* the k-th smallest element of a set of positions
RECURSIVE NthOf(_, _)
NthOf(positions, k) ==
  LET least == CHOOSE p \in positions : \A q \in positions : p <= q
  IN IF k = 1 THEN least ELSE NthOf(positions \ {least}, k - 1)

PartitionsInput(r) ==
  LET rows == input[r].transactions.rows
      txs == norm[r].txs
      rejects == norm[r].rejects
  IN /\ Len(txs) + Len(rejects) = Len(rows)
     /\ \A k \in 1..Len(rejects) :
          /\ rejects[k].index \in 0..(Len(rows) - 1)
          /\ rejects[k].row = rows[rejects[k].index + 1]
          /\ rejects[k].reason = "Missing client_id/date/amount"
     /\ \A k \in 1..(Len(rejects) - 1) : rejects[k].index < rejects[k + 1].index
     /\ Cardinality(KeptPositions(r)) = Len(txs)
     \* the k-th accepted transaction is the coercion of the k-th kept row
     /\ \A k \in 1..Len(txs) : txs[k] = coerceRow(rows[NthOf(KeptPositions(r), k)])

\* C28: normalizeTransactions partitions its input: every row index is the
\* index of exactly one reject or corresponds to exactly one accepted
\* transaction, never both; |txs| + |rejects| = |rows|; accepted
\* transactions keep input order, reject indexes are strictly ascending, and
\* the input rows are left unmodified
C28_Partition ==
  /\ [](\A r \in Req : Scored(r) => PartitionsInput(r))
  /\ [][input' = input]_vars

\* a rejected row between two accepted ones
C28_Witness ==
  /\ Scored(1)
  /\ InputTxIds(1) = <<"ok", "nocid", "neg">>
  /\ Len(norm[1].txs) = 2
  /\ norm[1].txs[1].tx_id = Str("ok") /\ norm[1].txs[2].tx_id = Str("neg")
  /\ RejectIndexes(1) = {1}
  /\ norm[1].rejects[1].row = input[1].transactions.rows[2]

\* the rule families that contributed points to a score record
FamiliesOf(rec) ==
  {f \in {"profile", "behavior", "corridor"} : SumPoints(rec.reasons, f) > 0}

\* C29: every family is capped below 30, so band High implies that at least
\* two rule families contributed points; a client with no in-window
\* transactions has score <= 20 and band Medium or Low, even when both
\* pep_flag and sanctions_flag are set
C29_HighNeedsTwoFamilies ==
  /\ \A f \in DOMAIN caps : caps[f] < 30
  /\ \A r \in Req :
       Scored(r) =>
         \A c \in 1..Len(scores[r]) :
           LET rec == scores[r][c]
           IN /\ rec.band = "High" => Cardinality(FamiliesOf(rec)) >= 2
              /\ byClientGet(norm[r].txs, norm[r].lookback, rec.client_id) = <<>>
                   => (rec.score <= 20 /\ rec.band \in {"Medium", "Low"})

\* a PEP under sanctions without a transaction: 60 profile points, capped at
\* 20, band Medium
C29_Witness ==
  /\ Scored(1)
  /\ InputTxIds(1) = <<>>
  /\ HasReason(scores[1][1], "PEP flag present")
  /\ HasReason(scores[1][1], "Sanctions flag present")
  /\ SumPoints(scores[1][1].reasons, "profile") = 60
  /\ scores[1][1].score = 20
  /\ scores[1][1].band = "Medium"

\* a step that removes an entry from the map removes an expired entry
RemovesOnlyExpired ==
  \A token \in Tokens :
    (store[token] # None /\ store'[token] = None) => store[token].expiresAt < now

\* C30: for any interleaving of put calls, get calls and expiry-timer
\* callbacks, an entry is removed from the store only after its own
\* expiresAt has passed; a timer scheduled by an earlier put under a token
\* never deletes the unexpired entry of a later put under the same token
C30_RemovedOnlyAfterExpiry == [][RemovesOnlyExpired]_vars

\* tokB was put twice and never read; its second entry is gone from the map
\* before its expiry, while that entry's own timer is still pending
C30_RemovedBeforeExpiry ==
  /\ unit.puts["tokB"] = 2
  /\ unit.returned = None
  /\ store["tokB"] = None
  /\ now < unit.latest["tokB"].expiresAt
  /\ timers = {[token |-> "tokB", at |-> unit.latest["tokB"].expiresAt + 5]}

====
